---- MODULE Spec2Model ----
(***************************************************************************)
(* ClawProxy: the chat-completion handler of server.ts (createServer, the  *)
(* latest revision), the request correlator of lib/client.ts and the       *)
(* reasoning reassembler of lib/stream-processor.ts, as one state machine. *)
(*                                                                         *)
(* Strings are sequences of one-character strings, "" is <<>>.  The ids    *)
(* the code draws with randomUUID are fresh integers.  A run's id is the   *)
(* id of the 'agent' request frame that created it: the gateway picks run  *)
(* ids, they are opaque to the proxy and unique per run.                   *)
(***************************************************************************)
EXTENDS Integers, Sequences, FiniteSets, TLC

\* ---------------------------------------------------------------- bounds
MaxEvents == 4      \* event frames the gateway emits to one chat request
MaxPairEvents == 1  \* event frames the gateway emits to two chat requests
MaxApi == 2         \* /v1/models and /v1/tools requests that arrive
MaxSockets == 3     \* connect() calls, each of which opens one socket
MaxChallenges == 2  \* connect.challenge events the gateway sends
MaxRetrySockets == 2     \* connect() calls of the connection manager alone
MaxRetryChallenges == 1  \* connect.challenge events to the manager alone
MaxDeltas == 3      \* deltas of one run handed to the reassembler

Req == {1, 2}       \* the earlier and the later of two chat requests
Keys == {"agent:dev:main", "agent:dev:bob"}   \* local session keys

Null == 0          \* runId === null, and "no frame"
Undef == -1        \* a payload field that is absent (undefined)

\* ------------------------------------------------------------- strings
RECURSIVE StartsWith(_, _)
StartsWith(s, p) ==
    IF p = <<>> THEN TRUE
    ELSE IF s = <<>> THEN FALSE
    ELSE Head(s) = Head(p) /\ StartsWith(Tail(s), Tail(p))

Slice(s, n) == SubSeq(s, n + 1, Len(s))

Includes(s, c) == \E i \in 1..Len(s) : s[i] = c

IsSpace(c) == c \in {" ", "\n", "\t"}

RECURSIVE TrimStart(_)
TrimStart(s) ==
    IF s # <<>> /\ IsSpace(Head(s)) THEN TrimStart(Tail(s)) ELSE s

RECURSIVE TrimEnd(_)
TrimEnd(s) ==
    IF s # <<>> /\ IsSpace(s[Len(s)]) THEN TrimEnd(SubSeq(s, 1, Len(s) - 1)) ELSE s

Trim(s) == TrimEnd(TrimStart(s))

UpperOf(c) ==
    CASE c = "a" -> "A" [] c = "p" -> "P" [] c = "r" -> "R" [] c = "o" -> "O"
      [] c = "v" -> "V" [] c = "e" -> "E" [] c = "d" -> "D" [] c = "h" -> "H"
      [] c = "i" -> "I" [] OTHER -> c

ToUpperCase(s) == [i \in 1..Len(s) |-> UpperOf(s[i])]

APPROVE == <<"A", "P", "P", "R", "O", "V", "E">>

IsApproveNoTrim(content) == ToUpperCase(content) = APPROVE

IsApprovePrefix(content) == StartsWith(ToUpperCase(Trim(content)), APPROVE)

\* lastMessage.content.trim().toUpperCase() === 'APPROVE'
IsApprove(content) == ToUpperCase(Trim(content)) = APPROVE

\* the bodies of a chat request's last message
Bodies == { <<" ", "A", "p", "p", "r", "o", "v", "e", "\n">>,
            <<"a", "p", "p", "r", "o", "v", "e", "d">> }

\* ------------------------------------------------- objects (JSON values)
\* An object is the set of its [k, v] entries, the values strings; an absent
\* key reads as the empty string, which is falsy like undefined.
EmptyObj == {}
Obj(k, v) == {[k |-> k, v |-> v]}
ObjKeys(o) == {e.k : e \in o}
Has(o, k) == k \in ObjKeys(o)
Get(o, k) == IF Has(o, k) THEN (CHOOSE e \in o : e.k = k).v ELSE <<>>
Without(o, ks) == {e \in o : e.k \notin ks}
With(o, k, v) == {e \in o : e.k # k} \cup Obj(k, v)
Truthy(s) == s # <<>>

\* the same for the server's maps, which are functions on their keys
MapDelete(m, k) == [x \in (DOMAIN m) \ {k} |-> m[x]]
MapSet(m, k, v) == [x \in (DOMAIN m) \cup {k} |-> IF x = k THEN v ELSE m[x]]

\* a raw delta carried by an event: absent, a bare string, or an object
NoDelta == [t |-> "undef", s |-> <<>>, o |-> EmptyObj]
StrDelta(s) == [t |-> "str", s |-> s, o |-> EmptyObj]
ObjDelta(o) == [t |-> "obj", s |-> <<>>, o |-> o]

FORBIDDEN_FIELDS == {"follow_ups", "metadata", "tool_output", "actions", "usage",
                     "runId", "sessionKey"}

normalizeDeltaPayload(delta) ==
    IF delta.t = "undef" THEN EmptyObj
    ELSE IF delta.t = "str" THEN Obj("content", delta.s)
    ELSE Without(delta.o, FORBIDDEN_FIELDS)

\* ----------------------------------------- lib/stream-processor.ts
ReasoningStreamProcessor ==
    [isThinking |-> FALSE, hasBailed |-> FALSE,
     accumulatedReasoning |-> <<>>, accumulatedContent |-> <<>>]

THINK_OPEN == "<think>"
THINK_CLOSE == <<"</think>", "\n\n">>

getIncrementalVerbatim(updated, existing) == updated

getIncremental(updated, existing) ==
    IF updated = <<>> THEN <<>>
    ELSE IF existing # <<>> /\ StartsWith(updated, existing)
         THEN Slice(updated, Len(existing))
         ELSE updated

\* processDelta: the new processor state and the object handed downstream
processDelta(p, delta) ==
    LET rawContent == Get(delta, "content")
        rawReasoning ==
            IF Truthy(Get(delta, "reasoning_content")) THEN Get(delta, "reasoning_content")
            ELSE IF Truthy(Get(delta, "thinking")) THEN Get(delta, "thinking")
            ELSE Get(delta, "thought")
        out0 == Without(delta, {"reasoning_content", "thinking", "thought"})
        newReasoning == getIncremental(rawReasoning, p.accumulatedReasoning)
        inc1 == IF newReasoning # <<>>
                THEN (IF p.isThinking THEN <<>> ELSE <<THINK_OPEN>>) \o newReasoning
                ELSE <<>>
        thinking1 == p.isThinking \/ newReasoning # <<>>
        newContent == getIncremental(rawContent, p.accumulatedContent)
        inc2 == IF newContent # <<>>
                THEN (IF thinking1 THEN THINK_CLOSE ELSE <<>>) \o newContent
                ELSE <<>>
        thinking2 == thinking1 /\ newContent = <<>>
        incrementalContent == inc1 \o inc2
    IN  IF p.hasBailed THEN [p |-> p, out |-> delta]
        ELSE IF Truthy(Get(delta, "role")) /\ Get(delta, "role") # <<"assistant">>
             THEN [p |-> p, out |-> delta]
        ELSE IF Includes(rawContent, THINK_OPEN)
             THEN [p |-> [p EXCEPT !.hasBailed = TRUE], out |-> delta]
        ELSE [p |-> [isThinking |-> thinking2, hasBailed |-> FALSE,
                     accumulatedReasoning |-> p.accumulatedReasoning \o newReasoning,
                     accumulatedContent |-> p.accumulatedContent \o newContent],
              out |-> IF incrementalContent # <<>>
                      THEN With(out0, "content", incrementalContent)
                      ELSE Without(out0, {"content"})]

IsBlank(s) == \A i \in 1..Len(s) : IsSpace(s[i])

processFullResponse(content, reasoning) ==
    IF reasoning = <<>> \/ IsBlank(reasoning) THEN content
    ELSE IF Includes(content, THINK_OPEN) THEN content
    ELSE <<THINK_OPEN>> \o reasoning \o THINK_CLOSE \o content

\* ------------------------------------------------------------- state
VARIABLES
    rq,                \* per chat request: the closure of its route handler
    pendingApprovals,  \* server.ts: sessionKey -> { runId, timestamp }
    sessionMap,        \* server.ts: sessionKey -> { remoteSessionId }
    nextSid,           \* the next remoteSessionId randomUUID() mints
    wsOpen,            \* client.ts: this.ws is set and its readyState is OPEN
    sent,              \* the request frames written to the socket, by id
    pending,           \* client.ts: the keys of this.pending
    timers,            \* ids whose requestRaw timeout is armed
    settled,           \* per frame id: the resolve / reject calls made on it
    gw,                \* the gateway's view of each frame it received
    nEvents,           \* event frames delivered so far
    confirmed,         \* the <<sessionKey, runId>> recorded on requires_confirmation
    nApi,              \* /v1/models and /v1/tools requests so far
    conn,              \* client.ts: the connection manager's fields, sockets and timers
    fed,               \* one streaming request's sink and the raw deltas forwarded to it
    now,               \* Date.now(), in ms since createServer
    nElapses,          \* the steps of time so far
    config,            \* the ProxyConfig createServer was called with
    composed,          \* a message list and the outbound message composed from it
    inbound,           \* the text frames ws.on('message') has been handed one by one
    twin               \* one run's events as a streaming and as a buffered request see them

vars == <<rq, pendingApprovals, sessionMap, nextSid, wsOpen, sent, pending,
          timers, settled, gw, nEvents, confirmed, nApi, conn, fed, now, nElapses, config, composed, inbound, twin>>

\* the closure of one POST /v1/chat/completions call before it arrives
NoRequest ==
    [pc |-> "idle", stream |-> FALSE, sessionKey |-> "", lastMessage |-> <<>>,
     effectiveSessionId |-> Null, isNewChat |-> FALSE,
     id |-> 0, messagePayload |-> <<>>,
     hadPending |-> Undef, startEv |-> 0,
     runId |-> Null, isResuming |-> FALSE, method |-> "", reqId |-> Null,
     listening |-> FALSE, listenerRemoved |-> FALSE,
     assistantRoleSent |-> FALSE, processor |-> ReasoningStreamProcessor,
     out |-> <<>>, ended |-> FALSE, closed |-> FALSE, lateWrite |-> FALSE,
     fullContent |-> <<>>, fullReasoning |-> <<>>,
     timer |-> FALSE, donePromise |-> "none",
     http |-> [status |-> 0, code |-> "", content |-> <<>>, finish_reason |-> ""]]

\* a GatewayClient after its constructor.  atts holds one record per connect()
\* call: the socket it created and the closure of that call.  rtimers are the
\* armed reconnect timers, hello the connect frames sent (socket, nonce, closure).
GatewayClient ==
    [started |-> FALSE, isStopped |-> FALSE, ws |-> Null, reconnectTimer |-> Null,
     connectNonce |-> Null, atts |-> <<>>, rtimers |-> {}, nTimers |-> 0,
     nNonce |-> 0, hello |-> {}, fails |-> 0]

\* the closure of a streaming chat request whose run has been issued, and the
\* raw deltas its eventHandler has handed to forwardDelta
Forwarding ==
    [q |-> [NoRequest EXCEPT !.pc = "open", !.stream = TRUE, !.listening = TRUE],
     ins |-> <<>>]

\* a streaming and a buffered request of the same content, each with its run
\* issued and the run's id returned, before the first event of the run
Twins ==
    [s |-> [NoRequest EXCEPT !.pc = "open", !.stream = TRUE, !.listening = TRUE,
                             !.runId = 1],
     b |-> [NoRequest EXCEPT !.pc = "wait", !.listening = TRUE, !.runId = 1,
                             !.timer = TRUE, !.donePromise = "pending"],
     evts |-> <<>>]

\* the fields of ClawProxyConfig the handlers read
ProxyConfig(sessionMode) == [sessionMode |-> sessionMode]

\* createServer(config) has returned: empty maps, no request yet
Constructed ==
    /\ conn = GatewayClient
    /\ fed = Forwarding
    /\ rq = [r \in Req |-> NoRequest]
    /\ pendingApprovals = [k \in {} |-> [runId |-> Null, timestamp |-> 0, ev |-> 0]]
    /\ sessionMap = [k \in {} |-> [remoteSessionId |-> Null, timestamp |-> 0]]
    /\ now = 0
    /\ nElapses = 0
    /\ composed = [messages |-> <<>>, isNewChat |-> TRUE, messagePayload |-> <<>>]
    /\ inbound = <<>>
    /\ twin = Twins
    /\ nextSid = 1
    /\ wsOpen \in BOOLEAN
    /\ sent = <<>>
    /\ pending = {}
    /\ timers = {}
    /\ settled = <<>>
    /\ gw = <<>>
    /\ nEvents = 0
    /\ confirmed = {}
    /\ nApi = 0

\* the server of the repository's end-to-end tests: sessionMode 'stateful'
Init == Constructed /\ config = ProxyConfig("stateful")

\* ------------------------------------------- the SSE sink of a request
NOTICE == <<"NOTICE">>
DoneLine(ev) == [line |-> "[DONE]", delta |-> EmptyObj, finish_reason |-> "null", ev |-> ev]
Chunk(delta, finishReason, ev) ==
    [line |-> "chunk", delta |-> delta, finish_reason |-> finishReason, ev |-> ev]

StreamWritePrepend(q, line) ==
    IF q.ended \/ q.closed THEN [q EXCEPT !.lateWrite = TRUE]
    ELSE [q EXCEPT !.out = <<line>> \o @]

\* stream.write on the PassThrough: after end() or destroy the write fails with
\* ERR_STREAM_WRITE_AFTER_END / ERR_STREAM_DESTROYED and nothing reaches the sink
StreamWrite(q, line) ==
    IF q.ended \/ q.closed THEN [q EXCEPT !.lateWrite = TRUE]
    ELSE [q EXCEPT !.out = Append(@, line)]

writeSseChunk(q, delta, finishReason, ev) == StreamWrite(q, Chunk(delta, finishReason, ev))

sendAssistantRoleChunk(q, ev) ==
    IF q.assistantRoleSent THEN q
    ELSE writeSseChunk([q EXCEPT !.assistantRoleSent = TRUE],
                       Obj("role", <<"assistant">>), "null", ev)

sendContentChunk(q, text, ev) ==
    writeSseChunk(sendAssistantRoleChunk(q, ev), Obj("content", text), "null", ev)

forwardDelta(q, raw, ev) ==
    LET normalized == normalizeDeltaPayload(raw)
        res == processDelta(q.processor, normalized)
        q1 == [q EXCEPT !.processor = res.p]
    IN  IF ObjKeys(normalized) = {} THEN q
        ELSE IF ~Truthy(Get(res.out, "content")) /\ ~Truthy(Get(res.out, "role")) THEN q1
        ELSE writeSseChunk(sendAssistantRoleChunk(q1, ev), res.out, "null", ev)

streamEnd(q) == [q EXCEPT !.ended = TRUE]

\* client.off('event', eventHandler)
clientOff(q) == [q EXCEPT !.listening = FALSE]

\* if (!listenerRemoved) { listenerRemoved = true; client.off(...) }
removeListenerOnce(q) ==
    IF q.listenerRemoved THEN q ELSE clientOff([q EXCEPT !.listenerRemoved = TRUE])

\* ------------------------------------------------ HTTP replies (buffered)
Reply(q, status, code, content, finishReason) ==
    [q EXCEPT !.pc = "replied",
              !.http = [status |-> status, code |-> code, content |-> content,
                        finish_reason |-> finishReason]]

\* the return statement of the buffered branch
replyCompletion(q) ==
    Reply(q, 200, "", processFullResponse(q.fullContent, q.fullReasoning), "stop")

\* the catch of the buffered branch, and Fastify's error handler after a throw
replyError(q, message) ==
    IF Includes(message, "unknown agent") \/ Includes(message, "invalid agent")
    THEN Reply(q, 400, "model_not_found", message, "")
    ELSE Reply(q, 500, "internal_error", message, "")

RUN_TIMEOUT_MESSAGE == <<"Agent execution timed out">>

\* resolve() of donePromise, and the handler's continuation if it awaits it
resolveDone(q) ==
    LET q1 == [q EXCEPT !.donePromise = IF @ = "pending" THEN "resolved" ELSE @]
    IN  IF q.pc = "wait" /\ q.donePromise = "pending" THEN replyCompletion(q1) ELSE q1

\* reject() of donePromise, and the handler's continuation if it awaits it
rejectDone(q) ==
    LET q1 == [q EXCEPT !.donePromise = IF @ = "pending" THEN "rejected" ELSE @]
    IN  IF q.pc = "wait" /\ q.donePromise = "pending"
        THEN replyError(q1, RUN_TIMEOUT_MESSAGE) ELSE q1

\* `await donePromise` once the issue request has resolved
awaitDone(q) ==
    IF q.donePromise = "resolved" THEN replyCompletion(q)
    ELSE IF q.donePromise = "rejected" THEN replyError(q, RUN_TIMEOUT_MESSAGE)
    ELSE [q EXCEPT !.pc = "wait"]

\* ------------------------------------------------------ event handlers
Event(name, runId, sessionKey, payload) ==
    [event |-> name, runId |-> runId, sessionKey |-> sessionKey,
     status |-> payload.status, stream |-> payload.stream, phase |-> payload.phase,
     delta |-> payload.delta, dataDelta |-> payload.dataDelta]

Payload(status, stream, phase, delta, dataDelta) ==
    [status |-> status, stream |-> stream, phase |-> phase,
     delta |-> delta, dataDelta |-> dataDelta]

MatchesRunOnly(q, evt) == evt.event = "agent" /\ evt.runId = q.runId

MatchesSessionAlways(q, evt) ==
    /\ evt.event = "agent"
    /\ \/ evt.runId = q.runId
       \/ evt.sessionKey = q.effectiveSessionId

\* isTargetRun || isTargetSession, for an 'agent' event
Matches(q, evt) ==
    /\ evt.event = "agent"
    /\ \/ evt.runId = q.runId
       \/ q.runId = Null /\ evt.sessionKey = q.effectiveSessionId

\* if (!runId && evt.payload?.runId) runId = evt.payload.runId
Lock(q, evt) ==
    IF q.runId = Null /\ evt.runId > 0 THEN [q EXCEPT !.runId = evt.runId] ELSE q

IsTerminal(evt) ==
    \/ evt.stream = "lifecycle" /\ evt.phase \in {"end", "error"}
    \/ evt.status \in {"done", "error"}

IsErrorEvent(evt) ==
    \/ evt.stream = "lifecycle" /\ evt.phase = "error"
    \/ evt.status = "error"

finishStreamNoStop(q, ev) ==
    streamEnd(removeListenerOnce(StreamWrite(q, DoneLine(ev))))

\* writeSseChunk({}, 'stop'); write [DONE]; remove the listener; stream.end()
finishStream(q, ev) ==
    streamEnd(removeListenerOnce(
        StreamWrite(writeSseChunk(q, EmptyObj, "stop", ev), DoneLine(ev))))

\* eventHandler of the streaming branch
eventHandlerStream(q, evt, ev) ==
    IF ~Matches(q, evt) THEN q
    ELSE LET q1 == Lock(q, evt)
             q2 == IF evt.stream = "assistant" /\ evt.dataDelta.t # "undef"
                   THEN forwardDelta(q1, evt.dataDelta, ev)
                   ELSE IF evt.delta.t # "undef" THEN forwardDelta(q1, evt.delta, ev)
                   ELSE q1
         IN  IF evt.status = "requires_confirmation"
             THEN finishStream(sendContentChunk(q1, NOTICE, ev), ev)
             ELSE IF IsTerminal(evt) THEN finishStream(sendAssistantRoleChunk(q2, ev), ev)
             ELSE q2

appendDeltaText(q, delta) ==
    LET n == normalizeDeltaPayload(delta)
    IN  [q EXCEPT !.fullContent = @ \o Get(n, "content"),
                  !.fullReasoning = @ \o Get(n, "reasoning_content")
                                      \o Get(n, "thinking") \o Get(n, "thought")]

\* clearTimeout(timer); client.off('event', eventHandler); resolve()
finishBuffered(q) == resolveDone(clientOff([q EXCEPT !.timer = FALSE]))

\* eventHandler of the buffered branch
eventHandlerBuffered(q, evt, ev) ==
    IF ~Matches(q, evt) THEN q
    ELSE LET q1 == Lock(q, evt)
             q2 == IF evt.stream = "assistant" /\ evt.dataDelta.t # "undef"
                   THEN appendDeltaText(q1, evt.dataDelta) ELSE q1
             q3 == IF evt.delta.t # "undef" THEN appendDeltaText(q2, evt.delta) ELSE q2
             q4 == IF IsErrorEvent(evt)
                   THEN [q3 EXCEPT !.fullContent = @ \o <<" [Error from Agent]">>] ELSE q3
         IN  IF evt.status = "requires_confirmation"
             THEN finishBuffered([q1 EXCEPT !.fullContent = NOTICE])
             ELSE IF IsTerminal(evt) THEN finishBuffered(q4)
             ELSE q3

eventHandler(q, evt, ev) ==
    IF q.stream THEN eventHandlerStream(q, evt, ev) ELSE eventHandlerBuffered(q, evt, ev)

\* the listeners whose handler records a PendingApproval for key k on evt
Confirmers(k, evt) ==
    {r \in Req : /\ rq[r].listening
                 /\ rq[r].sessionKey = k
                 /\ Matches(rq[r], evt)
                 /\ evt.status = "requires_confirmation"}

SetMax(S) == CHOOSE x \in S : \A y \in S : y <= x

\* pendingApprovals.set(sessionKey, { runId: runId!, timestamp }) by every handler
\* that matched, in the order the listeners were registered
recordApprovals(evt, ev) ==
    LET ks == {k \in Keys : Confirmers(k, evt) # {}}
    IN  [k \in (DOMAIN pendingApprovals) \cup ks |->
            IF k \in ks
            THEN [runId |-> Lock(rq[SetMax(Confirmers(k, evt))], evt).runId,
                  timestamp |-> now, ev |-> ev]
            ELSE pendingApprovals[k]]

\* client.emit('event', evt): every registered listener, in registration order
emitEvent(evt, ev) ==
    /\ rq' = [r \in Req |-> IF rq[r].listening THEN eventHandler(rq[r], evt, ev) ELSE rq[r]]
    /\ pendingApprovals' = recordApprovals(evt, ev)
    /\ confirmed' = confirmed \cup
          {<<k, recordApprovals(evt, ev)[k].runId>> : k \in {x \in Keys : Confirmers(x, evt) # {}}}

\* -------------------------------------------- continuations of the issue
\* the streaming branch's catch: off, role chunk, error chunk with 'stop', [DONE], end
streamIssueFailed(q, message) ==
    LET q1 == sendAssistantRoleChunk(clientOff(q), 0)
        q2 == writeSseChunk(q1, Obj("content", <<"Error: ">> \o message), "stop", 0)
    IN  [streamEnd(StreamWrite(q2, DoneLine(0))) EXCEPT !.pc = "failed"]

\* the await of client.request / client.approveRun throws
issueRejected(q, message) ==
    IF q.stream THEN streamIssueFailed(q, message) ELSE replyError(q, message)

\* the await of client.request / client.approveRun returns res
issueResolved(q, resRunId) ==
    LET q1 == IF q.method = "agent" THEN [q EXCEPT !.runId = resRunId] ELSE q
    IN  IF q.stream THEN [q1 EXCEPT !.pc = "open"] ELSE awaitDone(q1)

Owner(id) == sent[id].owner

\* p.resolve / p.reject of frame id reaches the chat request that awaits it
continueOwner(id, ok, resRunId, message) ==
    IF Owner(id) = 0 THEN rq
    ELSE [rq EXCEPT ![Owner(id)] =
            IF ok THEN issueResolved(@, resRunId) ELSE issueRejected(@, message)]

\* ------------------------------------------------------------ actions
Frame(method, runId, sessionKey, owner) ==
    [method |-> method, runId |-> runId, sessionKey |-> sessionKey, owner |-> owner]

\* requestRaw past its connection check: pending.set, ws.send, setTimeout
requestRawSend(frame) ==
    LET id == Len(sent) + 1
    IN  /\ sent' = Append(sent, frame)
        /\ pending' = pending \cup {id}
        /\ timers' = timers \cup {id}
        /\ settled' = Append(settled, <<>>)
        /\ gw' = Append(gw, "recv")

\* the session keys of the requests so far, and one key not seen yet
UsedKeys == {rq[x].sessionKey : x \in {y \in Req : rq[y].pc # "idle"}}
UsableKeys == UsedKeys \cup (IF Keys \subseteq UsedKeys THEN {}
                             ELSE {CHOOSE k \in Keys : k \notin UsedKeys})

consumeOnApproveOnly(approvals, key, body) ==
    IF IsApprove(body) THEN MapDelete(approvals, key) ELSE approvals

\* pendingApprovals.delete(sessionKey), in both branches of the approval check
consumePending(approvals, key, body) == MapDelete(approvals, key)

\* ------------------------------------------------ the outbound message
Msg(role, content) == [role |-> role, content |-> content]

\* a request body of one message, or of three with the given one last
Conversation(body, long) ==
    IF long THEN <<Msg("user", <<"a">>), Msg("assistant", <<"b">>), Msg("user", body)>>
    ELSE <<Msg("user", body)>>

RECURSIVE Join(_, _)
Join(parts, sep) ==
    IF parts = <<>> THEN <<>>
    ELSE IF Len(parts) = 1 THEN parts[1]
    ELSE parts[1] \o sep \o Join(Tail(parts), sep)

\* the words of LIVE_STATE_PATTERNS[1], each one token of a content
LIVE_STATE_WORDS == {"ls", "find", "grep", "cat", "read", "edit", "write", "exec"}

\* the RAG marker 'Sources:' as one token; a block ends with a blank line
RAG_MARKER == "Sources:"
BLANK_LINE == <<"\n", "\n">>

SYSTEM_GUARD_TEXT ==
    <<"LIVE_STATE: Tools are authoritative. Skip explanations. Execute workspace tools now.">>

\* the index of the last token of the block that starts with the marker at i:
\* /\bSources?:\s*[\s\S]*?(?:\n\n|$)/
RECURSIVE BlockEnd(_, _)
BlockEnd(s, j) ==
    IF j >= Len(s) THEN Len(s)
    ELSE IF s[j] = "\n" /\ s[j + 1] = "\n" THEN j + 1
    ELSE BlockEnd(s, j + 1)

RECURSIVE SkipSpace(_, _)
SkipSpace(s, j) == IF j <= Len(s) /\ IsSpace(s[j]) THEN SkipSpace(s, j + 1) ELSE j

\* cleaned.replace(regex, ''), every block
RECURSIVE RemoveBlocks(_)
RemoveBlocks(s) ==
    IF ~Includes(s, RAG_MARKER) THEN s
    ELSE LET i == CHOOSE k \in 1..Len(s) : s[k] = RAG_MARKER /\ \A m \in 1..(k - 1) : s[m] # RAG_MARKER
             e == BlockEnd(s, SkipSpace(s, i + 1))
         IN  SubSeq(s, 1, i - 1) \o RemoveBlocks(Slice(s, e))

stripRAG(text) == IF text = <<>> THEN text ELSE Trim(RemoveBlocks(text))

UsersOf(messages) ==
    LET IsUser(m) == m.role = "user" IN SelectSeq(messages, IsUser)

detectIntent(messages) ==
    LET users == UsersOf(messages)
    IN  users # <<>> /\ \E w \in LIVE_STATE_WORDS : Includes(users[Len(users)].content, w)

advancedSanitize(messages) ==
    LET isLiveState == detectIntent(messages)
        sanitized == [i \in 1..Len(messages) |->
                         IF messages[i].role = "tool" \/ ~isLiveState THEN messages[i]
                         ELSE Msg(messages[i].role, stripRAG(messages[i].content))]
    IN  IF isLiveState THEN <<Msg("system", SYSTEM_GUARD_TEXT)>> \o sanitized ELSE sanitized

RoleUpper(role) ==
    CASE role = "system" -> "SYSTEM" [] role = "user" -> "USER"
      [] role = "assistant" -> "ASSISTANT" [] role = "tool" -> "TOOL"

\* m.role.toUpperCase() + ': ' + m.content, joined by '\n'
roleLines(messages) ==
    Join([i \in 1..Len(messages) |->
             <<RoleUpper(messages[i].role), ": ">> \o messages[i].content], <<"\n">>)

statefulLastOnly(messages, isNewChat) ==
    LET users == UsersOf(messages)
    IN  IF users # <<>> THEN users[Len(users)].content ELSE messages[Len(messages)].content

\* the message of the stateful mode, from the sanitized history
statefulPayload(messages, isNewChat) ==
    LET processed == advancedSanitize(messages)
        users == UsersOf(processed)
        IsGuard(m) == m.role = "system" /\ m.content = SYSTEM_GUARD_TEXT
        IsBase(m) == m.role = "system" /\ m.content # SYSTEM_GUARD_TEXT
        guard == SelectSeq(processed, IsGuard)
        baseSystem == SelectSeq(processed, IsBase)
        lastUser == IF users # <<>> /\ users[Len(users)].content # <<>>
                    THEN users[Len(users)].content
                    ELSE messages[Len(messages)].content
        parts == (IF guard # <<>> THEN <<guard[1].content>> ELSE <<>>)
                 \o (IF baseSystem # <<>> THEN <<baseSystem[1].content>> ELSE <<>>)
    IN  IF isNewChat
        THEN IF parts # <<>>
             THEN <<"System: ">> \o Join(parts, BLANK_LINE) \o BLANK_LINE
                  \o <<"User: ">> \o lastUser
             ELSE lastUser
        ELSE IF guard # <<>>
             THEN <<"(System: ">> \o guard[1].content \o <<") ">> \o lastUser
             ELSE lastUser

messagePayload(sessionMode, messages, isNewChat) ==
    IF sessionMode = "stateful" THEN statefulPayload(messages, isNewChat)
    ELSE roleLines(advancedSanitize(messages))

\* ------------------------------------------------ the session logic
IsNewChatShort(messages, key) == Len(messages) < 2 \/ key \notin DOMAIN sessionMap

\* messages.length <= 2 || !remoteSessionId
IsNewChat(messages, key) == Len(messages) <= 2 \/ key \notin DOMAIN sessionMap

\* sessionMap.set(sessionKey, {remoteSessionId, timestamp}) for a new chat,
\* sessionData.timestamp = Date.now() otherwise
sessionLogic(messages, key) ==
    IF IsNewChat(messages, key)
    THEN MapSet(sessionMap, key, [remoteSessionId |-> nextSid, timestamp |-> now])
    ELSE [sessionMap EXCEPT ![key].timestamp = now]

\* POST /v1/chat/completions up to its first await
ChatRequest(r, stream, key, messages) ==
    /\ rq[r].pc = "idle"
    /\ \A x \in Req : x < r => rq[x].pc # "idle"
    /\ key \in UsableKeys
    /\ LET body == messages[Len(messages)].content
           isNewChat == IsNewChat(messages, key)
           sid == sessionLogic(messages, key)[key].remoteSessionId
           hasPending == key \in DOMAIN pendingApprovals
           approve == hasPending /\ IsApprove(body)
           runId0 == IF approve THEN pendingApprovals[key].runId ELSE Null
           resume == approve /\ runId0 # Null
           method == IF resume THEN "agent.approve" ELSE "agent"
           q0 == [NoRequest EXCEPT
                    !.pc = "issue", !.stream = stream, !.sessionKey = key,
                    !.lastMessage = body,
                    !.id = now,
                    !.effectiveSessionId = sid, !.isNewChat = isNewChat,
                    !.messagePayload = messagePayload(config.sessionMode, messages, isNewChat),
                    !.hadPending = IF hasPending THEN pendingApprovals[key].runId ELSE Undef,
                    !.startEv = nEvents,
                    !.runId = runId0, !.isResuming = approve, !.method = method,
                    !.listening = TRUE,
                    !.timer = ~stream,
                    !.donePromise = IF stream THEN "none" ELSE "pending"]
       IN  /\ sessionMap' = sessionLogic(messages, key)
           /\ nextSid' = IF isNewChat THEN nextSid + 1 ELSE nextSid
           /\ pendingApprovals' = consumePending(pendingApprovals, key, body)
           /\ IF wsOpen
              THEN /\ requestRawSend(Frame(method, runId0, sid, r))
                   /\ rq' = [rq EXCEPT ![r] = [q0 EXCEPT !.reqId = Len(sent) + 1]]
              ELSE /\ rq' = [rq EXCEPT ![r] = issueRejected(q0, <<"Not connected">>)]
                   /\ UNCHANGED <<sent, pending, timers, settled, gw>>
    /\ UNCHANGED <<wsOpen, nEvents, confirmed, nApi, conn, fed, now, nElapses, config, composed, inbound, twin>>

\* GET /v1/models (agents.list) and GET /v1/tools (agent.skills)
ApiRequest(method) ==
    /\ nApi < MaxApi
    /\ nApi' = nApi + 1
    /\ IF wsOpen THEN requestRawSend(Frame(method, Null, Null, 0))
       ELSE UNCHANGED <<sent, pending, timers, settled, gw>>
    /\ UNCHANGED <<rq, pendingApprovals, sessionMap, nextSid, fed, now, nElapses, config, composed, inbound, twin, wsOpen, nEvents, confirmed, conn>>

onResponseUnchecked(id, ok, resRunId, message) ==
    IF id \in 1..Len(sent)
    THEN /\ pending' = pending \ {id}
         /\ settled' = [settled EXCEPT ![id] = Append(@, IF ok THEN "resolve" ELSE "reject")]
         /\ rq' = continueOwner(id, ok, resRunId, message)
    ELSE UNCHANGED <<pending, settled, rq>>

onResponseNoDelete(id, ok, resRunId, message) ==
    IF id \in pending
    THEN /\ pending' = pending
         /\ settled' = [settled EXCEPT ![id] = Append(@, IF ok THEN "resolve" ELSE "reject")]
         /\ rq' = continueOwner(id, ok, resRunId, message)
    ELSE UNCHANGED <<pending, settled, rq>>

\* ws.on('message') for a 'res' frame
onResponse(id, ok, resRunId, message) ==
    IF id \in pending
    THEN /\ pending' = pending \ {id}
         /\ settled' = [settled EXCEPT ![id] = Append(@, IF ok THEN "resolve" ELSE "reject")]
         /\ rq' = continueOwner(id, ok, resRunId, message)
    ELSE UNCHANGED <<pending, settled, rq>>

\* the gateway answers a request frame it has received
GwRespond(id, ok, message) ==
    /\ wsOpen
    /\ id \in 1..Len(sent)
    /\ gw[id] \in {"recv", "run"}
    /\ ok \/ gw[id] = "recv"
    /\ gw' = [gw EXCEPT ![id] = IF ok THEN "ok" ELSE message[1]]
    /\ onResponse(id, ok, id, message)
    /\ UNCHANGED <<pendingApprovals, sessionMap, nextSid, fed, now, nElapses, config, composed, inbound, twin, wsOpen, sent, timers, nEvents, confirmed, nApi, conn>>

\* the setTimeout callback of requestRaw
TimerFire(id) ==
    /\ id \in timers
    /\ \A x \in timers : id <= x      \* one requestTimeoutMs: armed first, fires first
    /\ timers' = timers \ {id}
    /\ IF id \in pending
       THEN /\ pending' = pending \ {id}
            /\ settled' = [settled EXCEPT ![id] = Append(@, "timeout")]
            /\ rq' = continueOwner(id, FALSE, Null, <<"Timeout">>)
       ELSE UNCHANGED <<pending, settled, rq>>
    /\ UNCHANGED <<pendingApprovals, sessionMap, nextSid, fed, now, nElapses, config, composed, inbound, twin, wsOpen, sent, gw, nEvents, confirmed, nApi, conn>>

Texts == { <<"a">>, <<"b">> }

Payloads ==
    { Payload("", "", "", StrDelta(t), NoDelta) : t \in Texts }
    \cup { Payload("", "assistant", "", NoDelta, ObjDelta(Obj("content", t))) : t \in Texts }
    \cup { Payload("", "", "", ObjDelta(Obj("reasoning_content", <<"r">>)), NoDelta) }
    \cup { Payload(st, "", "", NoDelta, NoDelta) :
              st \in {"done", "error", "requires_confirmation", "running"} }
    \cup { Payload("requires_confirmation", "", "", StrDelta(<<"a">>), NoDelta) }
    \cup { Payload("", "lifecycle", ph, NoDelta, NoDelta) : ph \in {"end", "error"} }

\* the gateway emits an event of a run it has started; ws.on('message') emits it
GwEvent(name, run, hasRunId, hasSessionKey, payload) ==
    /\ wsOpen
    /\ run \in 1..Len(sent)
    /\ sent[run].method = "agent"
    /\ gw[run] \in {"recv", "run", "ok"}
    /\ hasRunId \/ hasSessionKey
    /\ nEvents' = nEvents + 1
    /\ gw' = [gw EXCEPT ![run] = IF @ = "recv" THEN "run" ELSE @]
    /\ emitEvent(Event(name, IF hasRunId THEN run ELSE Undef,
                       IF hasSessionKey THEN sent[run].sessionKey ELSE Undef, payload),
                 nEvents + 1)
    /\ UNCHANGED <<sessionMap, nextSid, fed, now, nElapses, config, composed, inbound, twin, wsOpen, sent, pending, timers, settled, nApi, conn>>

runTimeoutNoOff(q) == rejectDone([q EXCEPT !.timer = FALSE])

\* the setTimeout callback of donePromise: client.off, then reject
runTimeoutExpired(q) == rejectDone(clientOff([q EXCEPT !.timer = FALSE]))

\* the 60 s timer of donePromise; it expires after the 30 s request timeout
RunTimeout(r) ==
    /\ rq[r].timer
    /\ rq[r].reqId \notin timers
    /\ rq' = [rq EXCEPT ![r] = runTimeoutExpired(@)]
    /\ UNCHANGED <<pendingApprovals, sessionMap, nextSid, fed, now, nElapses, config, composed, inbound, twin, wsOpen, sent, pending,
                   timers, settled, gw, nEvents, confirmed, nApi, conn, fed>>

\* the HTTP peer goes away before the response has ended: stream.on('close')
StreamClose(r) ==
    /\ rq[r].pc # "idle"
    /\ rq[r].stream
    /\ ~rq[r].ended
    /\ ~rq[r].closed
    /\ rq' = [rq EXCEPT ![r] = removeListenerOnce([@ EXCEPT !.closed = TRUE])]
    /\ UNCHANGED <<pendingApprovals, sessionMap, nextSid, fed, now, nElapses, config, composed, inbound, twin, wsOpen, sent, pending,
                   timers, settled, gw, nEvents, confirmed, nApi, conn, fed>>

\* ws.on('close'): this.ws = null
SocketClose ==
    /\ wsOpen
    /\ wsOpen' = FALSE
    /\ UNCHANGED <<rq, pendingApprovals, sessionMap, nextSid, fed, now, nElapses, config, composed, inbound, twin, sent, pending,
                   timers, settled, gw, nEvents, confirmed, nApi, conn, fed>>

\* connectWithRetry has opened a new socket and completed the handshake
SocketOpen ==
    /\ ~wsOpen
    /\ wsOpen' = TRUE
    /\ UNCHANGED <<rq, pendingApprovals, sessionMap, nextSid, fed, now, nElapses, config, composed, inbound, twin, sent, pending,
                   timers, settled, gw, nEvents, confirmed, nApi, conn, fed>>

\* one chat request, every event shape, every timing of response and timeout
Next ==
    \/ \E stream \in BOOLEAN, key \in Keys, body \in Bodies, long \in BOOLEAN :
          ChatRequest(1, stream, key, Conversation(body, long))
    \/ \E id \in 1..Len(sent), ok \in BOOLEAN, message \in {<<"unknown agent">>, <<"boom">>} :
          GwRespond(id, ok, message)
    \/ \E id \in timers : TimerFire(id)
    \/ \E name \in {"agent", "health"}, run \in 1..Len(sent), hasRunId \in BOOLEAN,
          hasSessionKey \in BOOLEAN, payload \in Payloads :
          nEvents < MaxEvents /\ GwEvent(name, run, hasRunId, hasSessionKey, payload)
    \/ \E r \in Req : RunTimeout(r)
    \/ \E r \in Req : StreamClose(r)
    \/ SocketClose
    \/ SocketOpen

Spec == Init /\ [][Next]_vars

PairPayloads ==
    { Payload("", "", "", StrDelta(<<"a">>), NoDelta) }
    \cup { Payload(st, "", "", NoDelta, NoDelta) :
              st \in {"done", "error", "requires_confirmation", "running"} }

\* two chat requests that may overlap; the gateway answers outstanding requests
NextPair ==
    \/ \E r \in Req, stream \in BOOLEAN, key \in Keys, body \in Bodies, long \in BOOLEAN :
          ChatRequest(r, stream, key, Conversation(body, long))
    \/ \E id \in pending, ok \in BOOLEAN, message \in {<<"unknown agent">>, <<"boom">>} :
          GwRespond(id, ok, message)
    \/ \E id \in timers : TimerFire(id)
    \/ \E name \in {"agent", "health"}, run \in 1..Len(sent), hasRunId \in BOOLEAN,
          hasSessionKey \in BOOLEAN, payload \in PairPayloads :
          nEvents < MaxPairEvents /\ GwEvent(name, run, hasRunId, hasSessionKey, payload)
    \/ \E r \in Req : RunTimeout(r)
    \/ SocketClose
    \/ SocketOpen

SpecPair == Init /\ [][NextPair]_vars

\* the request correlator: one chat request and the /v1/models, /v1/tools requests
NextRC ==
    \/ \E stream \in BOOLEAN, key \in Keys :
          ChatRequest(1, stream, key, Conversation(<<"a", "p", "p", "r", "o", "v", "e", "d">>, FALSE))
    \/ \E method \in {"agents.list", "agent.skills"} : ApiRequest(method)
    \/ \E id \in 1..Len(sent), ok \in BOOLEAN : GwRespond(id, ok, <<"boom">>)
    \/ \E id \in timers : TimerFire(id)
    \/ \E r \in Req : RunTimeout(r)
    \/ SocketClose
    \/ SocketOpen

SpecRC == Init /\ [][NextRC]_vars

\* the ids requestRaw can have minted
MaxIds == MaxApi + 1

\* Node runs every armed timer: each setTimeout callback of requestRaw fires
SpecRCLive == SpecRC /\ \A id \in 1..MaxIds : WF_vars(TimerFire(id))

\* ------------------------------------ client.ts: the connection manager
\* the socket and the closure of one connect() call
NewAttempt(retries) ==
    [state |-> "connecting", listeners |-> TRUE, promise |-> "pending",
     handshakeTimeout |-> TRUE, connectStarted |-> FALSE, retries |-> retries,
     nonces |-> {}, authed |-> FALSE]

\* this.ws && this.ws.readyState === WebSocket.OPEN
WsIsOpen(c) == c.ws # Null /\ c.atts[c.ws].state = "open"

\* Math.min(1000 * Math.pow(2, retries), 30000)
BackoffDelay(retries) ==
    IF 1000 * 2^retries < 30000 THEN 1000 * 2^retries ELSE 30000

\* this.reconnectTimer = setTimeout(..., delay); k is the number of consecutive
\* failed attempts at that moment
armTimer(c, kind, delay, retries) ==
    [c EXCEPT !.nTimers = @ + 1,
              !.reconnectTimer = c.nTimers + 1,
              !.rtimers = @ \cup {[h |-> c.nTimers + 1, kind |-> kind, delay |-> delay,
                                   retries |-> retries, k |-> c.fails]}]

catchGivesUp(c, a) == c

\* the catch of connectWithRetry(retries) once connect() has rejected
catchRetry(c, a) ==
    IF c.isStopped THEN c
    ELSE armTimer(c, "catch", BackoffDelay(c.atts[a].retries), c.atts[a].retries + 1)

\* clearTimeout(handshakeTimeout); reject(err)
settleReject(c, a) ==
    [c EXCEPT !.atts[a].handshakeTimeout = FALSE,
              !.atts[a].promise = IF @ = "pending" THEN "rejected" ELSE @,
              !.fails = IF c.atts[a].promise = "pending" THEN @ + 1 ELSE @]

\* failConnect(err), and the catch of connectWithRetry if the promise was pending
failConnect(c, a) ==
    IF c.atts[a].promise = "pending" THEN catchRetry(settleReject(c, a), a)
    ELSE settleReject(c, a)

\* finishConnect(): clearTimeout(handshakeTimeout); resolve()
finishConnect(c, a) ==
    [c EXCEPT !.atts[a].handshakeTimeout = FALSE,
              !.atts[a].promise = IF @ = "pending" THEN "resolved" ELSE @,
              !.fails = IF c.atts[a].promise = "pending" THEN 0 ELSE @]

\* connect(): this.ws = new WebSocket(url), the handshake timer, the handlers
connect(c, retries) ==
    [c EXCEPT !.atts = Append(@, NewAttempt(retries)), !.ws = Len(c.atts) + 1]

\* ws.on('close') of socket s: this.ws = null; unless stopped, failConnect and a
\* 1000 ms reconnect timer; the catch of connectWithRetry runs after the handler
closeHandler(c, s) ==
    LET c1 == [c EXCEPT !.ws = Null]
        c2 == [settleReject(c1, s) EXCEPT
                  !.fails = IF c.atts[s].promise = "resolved" THEN @ + 1 ELSE @]
        c3 == armTimer(c2, "close", 1000, 0)
    IN  IF c.isStopped THEN c1
        ELSE IF c.atts[s].promise = "pending" THEN catchRetry(c3, s)
        ELSE c3

\* start(): isStopped = false; connectWithRetry()
Start ==
    /\ ~conn.started \/ conn.isStopped
    /\ conn' = connect([conn EXCEPT !.started = TRUE, !.isStopped = FALSE], 0)
    /\ wsOpen' = WsIsOpen(conn')
    /\ UNCHANGED <<rq, pendingApprovals, sessionMap, nextSid, fed, now, nElapses, config, composed, inbound, twin, sent, pending,
                   timers, settled, gw, nEvents, confirmed, nApi>>

\* stop(): clearTimeout(reconnectTimer); removeAllListeners, close, ws = null
stop(c) ==
    LET c1 == [c EXCEPT !.isStopped = TRUE,
                        !.reconnectTimer = Null,
                        !.rtimers = {t \in @ : t.h # c.reconnectTimer}]
    IN  IF c.ws = Null THEN c1
        ELSE [c1 EXCEPT !.atts[c.ws].listeners = FALSE,
                        !.atts[c.ws].state = IF @ = "closed" THEN @ ELSE "closing",
                        !.ws = Null]

Stop ==
    /\ conn.started
    /\ ~conn.isStopped
    /\ conn' = stop(conn)
    /\ wsOpen' = WsIsOpen(conn')
    /\ UNCHANGED <<rq, pendingApprovals, sessionMap, nextSid, fed, now, nElapses, config, composed, inbound, twin, sent, pending,
                   timers, settled, gw, nEvents, confirmed, nApi>>

\* the socket opens: ws.on('open') only logs
SockOpen(s) ==
    /\ conn.atts[s].state = "connecting"
    /\ conn' = [conn EXCEPT !.atts[s].state = "open"]
    /\ wsOpen' = WsIsOpen(conn')
    /\ UNCHANGED <<rq, pendingApprovals, sessionMap, nextSid, fed, now, nElapses, config, composed, inbound, twin, sent, pending,
                   timers, settled, gw, nEvents, confirmed, nApi>>

\* the socket fails while connecting ('error', then 'close'), or an open or
\* closing socket closes: ws.on('close') runs if the listeners are still there
SockClose(s) ==
    /\ conn.atts[s].state # "closed"
    /\ LET c1 == [conn EXCEPT !.atts[s].state = "closed"]
       IN  conn' = IF conn.atts[s].listeners THEN closeHandler(c1, s) ELSE c1
    /\ wsOpen' = WsIsOpen(conn')
    /\ UNCHANGED <<rq, pendingApprovals, sessionMap, nextSid, fed, now, nElapses, config, composed, inbound, twin, sent, pending,
                   timers, settled, gw, nEvents, confirmed, nApi>>

\* ws.on('message') of socket s for a connect.challenge event: connectNonce, and
\* sendConnect() if this connect() call has not started one yet
Challenge(s) ==
    /\ conn.atts[s].state = "open"
    /\ conn.atts[s].listeners
    /\ LET nonce == conn.nNonce + 1
           c1 == [conn EXCEPT !.nNonce = nonce,
                              !.connectNonce = nonce,
                              !.atts[s].nonces = @ \cup {nonce}]
           c2 == [c1 EXCEPT !.atts[s].connectStarted = TRUE]
       IN  IF conn.atts[s].connectStarted
           THEN /\ conn' = c1
                /\ UNCHANGED <<sent, pending, timers, settled, gw>>
           ELSE IF WsIsOpen(conn)
           THEN /\ requestRawSend(Frame("connect", Null, Null, 0))
                /\ conn' = [c2 EXCEPT !.hello = @ \cup
                               {[id |-> Len(sent) + 1, sock |-> conn.ws,
                                 nonce |-> nonce, att |-> s]}]
           ELSE /\ conn' = failConnect(c2, s)
                /\ UNCHANGED <<sent, pending, timers, settled, gw>>
    /\ wsOpen' = WsIsOpen(conn')
    /\ UNCHANGED <<rq, pendingApprovals, sessionMap, nextSid, fed, now, nElapses, config, composed, inbound, twin, nEvents, confirmed, nApi>>

\* the gateway answers a connect frame on the socket it came in on; the response
\* settles sendConnect(), whose then / catch is finishConnect / failConnect
HelloRespond(hl, ok) ==
    /\ hl \in conn.hello
    /\ gw[hl.id] = "recv"
    /\ conn.atts[hl.sock].state = "open"
    /\ conn.atts[hl.sock].listeners
    /\ gw' = [gw EXCEPT ![hl.id] = IF ok THEN "ok" ELSE "boom"]
    /\ onResponse(hl.id, ok, Null, <<"boom">>)
    /\ LET c1 == [conn EXCEPT !.atts[hl.sock].authed = @ \/ ok]
       IN  conn' = IF hl.id \notin pending THEN c1
                   ELSE IF ok THEN finishConnect(c1, hl.att)
                   ELSE failConnect(c1, hl.att)
    /\ wsOpen' = WsIsOpen(conn')
    /\ UNCHANGED <<pendingApprovals, sessionMap, nextSid, fed, now, nElapses, config, composed, inbound, twin, sent, timers, nEvents,
                   confirmed, nApi>>

\* the 15 s handshake timer of one connect() call: close this.ws if it is open,
\* reject
HandshakeTimeout(a) ==
    /\ conn.atts[a].handshakeTimeout
    /\ LET c1 == IF WsIsOpen(conn)
                 THEN [conn EXCEPT !.atts[conn.ws].state = "closing"] ELSE conn
       IN  conn' = failConnect(c1, a)
    /\ wsOpen' = WsIsOpen(conn')
    /\ UNCHANGED <<rq, pendingApprovals, sessionMap, nextSid, fed, now, nElapses, config, composed, inbound, twin, sent, pending,
                   timers, settled, gw, nEvents, confirmed, nApi>>

\* a reconnect timer fires: connectWithRetry(retries + 1) after the catch's
\* delay (which first sets reconnectTimer = null), connectWithRetry() after the
\* close handler's
RetryFire(t) ==
    /\ t \in conn.rtimers
    /\ LET c1 == [conn EXCEPT !.rtimers = @ \ {t},
                              !.reconnectTimer = IF t.kind = "catch" THEN Null ELSE @]
       IN  conn' = connect(c1, t.retries)
    /\ wsOpen' = WsIsOpen(conn')
    /\ UNCHANGED <<rq, pendingApprovals, sessionMap, nextSid, fed, now, nElapses, config, composed, inbound, twin, sent, pending,
                   timers, settled, gw, nEvents, confirmed, nApi>>

\* the connection manager with one application request
NextConn ==
    \/ Len(conn.atts) < MaxSockets /\ Start
    \/ Stop
    \/ \E s \in 1..Len(conn.atts) : SockOpen(s)
    \/ \E s \in 1..Len(conn.atts) : SockClose(s)
    \/ \E s \in 1..Len(conn.atts) : conn.nNonce < MaxChallenges /\ Challenge(s)
    \/ \E hl \in conn.hello, ok \in BOOLEAN : HelloRespond(hl, ok)
    \/ \E a \in 1..Len(conn.atts) : HandshakeTimeout(a)
    \/ \E t \in conn.rtimers : Len(conn.atts) < MaxSockets /\ RetryFire(t)
    \/ nApi = 0 /\ ApiRequest("agents.list")
    \/ \E id \in pending : sent[id].method # "connect" /\ GwRespond(id, TRUE, <<"boom">>)

InitConn == Init /\ ~wsOpen

SpecConn == InitConn /\ [][NextConn]_vars

\* the connection manager alone
NextRetry ==
    \/ Len(conn.atts) < MaxRetrySockets /\ Start
    \/ Stop
    \/ \E s \in 1..Len(conn.atts) : SockOpen(s)
    \/ \E s \in 1..Len(conn.atts) : SockClose(s)
    \/ \E s \in 1..Len(conn.atts) : conn.nNonce < MaxRetryChallenges /\ Challenge(s)
    \/ \E hl \in conn.hello, ok \in BOOLEAN : HelloRespond(hl, ok)
    \/ \E a \in 1..Len(conn.atts) : HandshakeTimeout(a)
    \/ \E t \in conn.rtimers : Len(conn.atts) < MaxRetrySockets /\ RetryFire(t)

\* Node runs every armed timer: each reconnect timer fires unless it is cleared
SpecRetry ==
    /\ InitConn
    /\ [][NextRetry]_vars
    /\ WF_vars(\E t \in conn.rtimers : Len(conn.atts) < MaxRetrySockets /\ RetryFire(t))

\* ------------------------------------------------------------ claims
\* the bodies that are the approval token once trimmed, whatever their case
ApprovalBodies == { <<" ", "A", "p", "p", "r", "o", "v", "e", "\n">> }

FramesOf(r) == {id \in 1..Len(sent) : sent[id].owner = r}

\* the request failed at once because the socket was not open
NotConnectedFailure(r) ==
    /\ rq[r].reqId = Null
    /\ IF rq[r].stream
       THEN \E i \in 1..Len(rq[r].out) :
               Get(rq[r].out[i].delta, "content") = <<"Error: ", "Not connected">>
       ELSE rq[r].http.content = <<"Not connected">>

\* C1: every agent.approve frame ever sent belongs to a chat request that found
\* PendingApproval{K, R} for its session key on arrival, recorded earlier by a
\* requires_confirmation event, and whose last message is the approval token.
ApprovalGate ==
    \A id \in 1..Len(sent) :
        sent[id].method = "agent.approve" =>
            LET r == sent[id].owner
            IN  /\ r \in Req
                /\ sent[id].runId # Null
                /\ rq[r].hadPending = sent[id].runId
                /\ <<rq[r].sessionKey, sent[id].runId>> \in confirmed
                /\ rq[r].lastMessage \in ApprovalBodies

ApprovalGateWitness == \E id \in 1..Len(sent) : sent[id].method = "agent.approve"

ArrivesConsuming(r) ==
    (rq[r].pc = "idle" /\ rq'[r].pc # "idle") =>
        LET K == rq'[r].sessionKey
        IN  /\ K \notin DOMAIN pendingApprovals'
            /\ (K \in DOMAIN pendingApprovals /\ rq'[r].lastMessage \notin ApprovalBodies) =>
                  /\ rq'[r].runId = Null
                  /\ ~rq'[r].isResuming
                  /\ rq'[r].method = "agent"
                  /\ sent' = IF wsOpen
                             THEN Append(sent, Frame("agent", Null, rq'[r].effectiveSessionId, r))
                             ELSE sent

NothingOlderRemains ==
    \A r \in Req :
        rq[r].pc # "idle" =>
            /\ rq[r].sessionKey \in DOMAIN pendingApprovals =>
                  pendingApprovals[rq[r].sessionKey].ev > rq[r].startEv
            /\ (rq[r].hadPending # Undef /\ rq[r].lastMessage \notin ApprovalBodies) =>
                  \A id \in FramesOf(r) : sent[id].method = "agent"

PendingConsumed == [][(\A r \in Req : ArrivesConsuming(r)) /\ NothingOlderRemains']_vars

PendingConsumedWitness ==
    \E r \in Req :
        /\ rq[r].pc # "idle"
        /\ rq[r].hadPending # Undef
        /\ rq[r].lastMessage \notin ApprovalBodies
        /\ rq[r].reqId \in FramesOf(r)

\* ---- claims on one chat request
ConfirmationPayloads == {p \in Payloads : p.status = "requires_confirmation"}

IsSuffix(s, t) == Len(s) <= Len(t) /\ SubSeq(t, Len(t) - Len(s) + 1, Len(t)) = s

\* the lines finishStream writes after the notice
NoticeTail(q, ev) ==
    (IF q.assistantRoleSent THEN <<>> ELSE <<Chunk(Obj("role", <<"assistant">>), "null", ev)>>)
    \o << Chunk(Obj("content", NOTICE), "null", ev), Chunk(EmptyObj, "stop", ev), DoneLine(ev) >>

InFlight(r) == rq[r].pc \in {"issue", "open", "wait"} /\ ~rq[r].ended /\ ~rq[r].closed

NoticeReply(q) ==
    /\ q.pc = "replied"
    /\ q.http.status = 200
    /\ q.http.finish_reason = "stop"
    /\ IsSuffix(NOTICE, q.http.content)

ConfirmationStep(r) ==
    \A run \in 1..Len(sent), hasRunId \in BOOLEAN, hasSessionKey \in BOOLEAN,
       payload \in ConfirmationPayloads :
        LET evt == Event("agent", IF hasRunId THEN run ELSE Undef,
                         IF hasSessionKey THEN sent[run].sessionKey ELSE Undef, payload)
            K == rq[r].sessionKey
        IN  (/\ GwEvent("agent", run, hasRunId, hasSessionKey, payload)
             /\ rq[r].listening
             /\ InFlight(r)
             /\ Matches(rq[r], evt)) =>
                /\ K \in DOMAIN pendingApprovals'
                /\ pendingApprovals'[K].runId = rq'[r].runId
                /\ ~rq'[r].listening
                /\ rq[r].stream =>
                      /\ rq'[r].out = rq[r].out \o NoticeTail(rq[r], nEvents')
                      /\ rq'[r].ended
                /\ ~rq[r].stream =>
                      /\ rq'[r].fullContent = NOTICE
                      /\ rq'[r].donePromise = "resolved"
                      /\ rq[r].pc = "wait" => NoticeReply(rq'[r])

\* a buffered request whose run asked for confirmation while the run-issue
\* request was outstanding is answered with the notice
BufferedNotice ==
    \A r \in Req :
        (/\ ~rq[r].stream
         /\ rq[r].pc = "issue"
         /\ rq[r].donePromise = "resolved"
         /\ rq[r].fullContent = NOTICE
         /\ rq'[r].pc # "issue") => NoticeReply(rq'[r])

\* nothing reaches a response that has ended
EndedIsFinal ==
    \A r \in Req : rq[r].ended => rq'[r].out = rq[r].out /\ rq'[r].ended

\* C4: a matched requires_confirmation event ends the response with the notice
\* (stream: notice chunk, stop chunk, [DONE], end; buffered: 200, 'stop', content
\* ending in the notice), records PendingApproval{session key, current runId},
\* removes the listener, and nothing is added to the response afterwards.
ConfirmationTerminates ==
    [][(\A r \in Req : ConfirmationStep(r)) /\ EndedIsFinal /\ BufferedNotice]_vars

\* C6: a streaming response is chunks with finish_reason null, then one 'stop'
\* chunk, then one [DONE] line, then the end; nothing is written after [DONE].
\* A response the peer closed first is a run of null chunks.
IsNullChunk(l) == l.line = "chunk" /\ l.finish_reason = "null"
IsStopChunk(l) == l.line = "chunk" /\ l.finish_reason = "stop"

WellFormed(q) ==
    LET n == Len(q.out)
    IN  IF q.ended /\ ~q.closed
        THEN /\ n >= 2
             /\ q.out[n].line = "[DONE]"
             /\ IsStopChunk(q.out[n - 1])
             /\ \A i \in 1..(n - 2) : IsNullChunk(q.out[i])
        ELSE \A i \in 1..n : IsNullChunk(q.out[i])

IsContentChunk(l) == l.line = "chunk" /\ Has(l.delta, "content")
EventChunks(q) == {i \in 1..Len(q.out) : IsContentChunk(q.out[i]) /\ q.out[i].ev > 0}

InArrivalOrder(q) ==
    /\ \A i \in 1..Len(q.out) : Has(q.out[i].delta, "role") => i = 1
    /\ \A i, j \in EventChunks(q) : i < j => q.out[i].ev < q.out[j].ev

WrittenOnArrival(q, p) ==
    /\ Len(q.out) <= Len(p.out)
    /\ SubSeq(p.out, 1, Len(q.out)) = q.out
    /\ \A i \in EventChunks(p) : i > Len(q.out) => p.out[i].ev = nEvents' /\ nEvents' # nEvents

ArrivalOrder ==
    [][\A r \in Req : InArrivalOrder(rq'[r]) /\ WrittenOnArrival(rq[r], rq'[r])]_vars

ArrivalOrderWitness ==
    \E r \in Req : \E i, j \in EventChunks(rq[r]) :
        i < j /\ Get(rq[r].out[i].delta, "content") # Get(rq[r].out[j].delta, "content")

\* C8: a request whose response has finished or whose peer has gone has no
\* listener on the event broadcast.
ListenersWithinFlight == \A r \in Req : rq[r].listening => InFlight(r)

\* C9: when the 60 s timer of a buffered request expires, its listener is removed,
\* no timer or pending entry of the request remains, and a request waiting for its
\* run is answered 500 internal_error with the run-timeout message.
RunTimeoutSurfaces ==
    [][\A r \in Req :
          RunTimeout(r) =>
             /\ ~rq'[r].listening
             /\ ~rq'[r].timer
             /\ rq'[r].donePromise # "pending"
             /\ rq[r].reqId \notin pending' \cup timers'
             /\ rq'[r].pc = "replied"
             /\ rq[r].pc = "wait" =>
                   rq'[r].http = [status |-> 500, code |-> "internal_error",
                                  content |-> RUN_TIMEOUT_MESSAGE, finish_reason |-> ""]]_vars

RunTimeoutSurfacesWitness ==
    \E r \in Req : rq[r].pc = "replied" /\ rq[r].http.content = RUN_TIMEOUT_MESSAGE

\* ---- claims on two chat requests
\* C5: no two live bindings are locked to the same runId, and no event is written
\* to two responses.
NoCrossBinding ==
    \A r1, r2 \in Req :
        r1 # r2 =>
            /\ (rq[r1].listening /\ rq[r2].listening /\ rq[r1].runId # Null) =>
                  rq[r1].runId # rq[r2].runId
            /\ \A i \in EventChunks(rq[r1]), j \in EventChunks(rq[r2]) :
                  rq[r1].out[i].ev # rq[r2].out[j].ev

\* ---- claims on the request correlator
SettledOnce ==
    \A id \in 1..Len(sent) :
        /\ Len(settled[id]) <= 1
        /\ id \in pending <=> settled[id] = <<>>
        /\ id \in pending => id \in timers
        /\ settled[id] = <<"resolve">> => gw[id] = "ok"
        /\ settled[id] = <<"reject">> => gw[id] \in {"unknown agent", "boom"}
        /\ settled[id] = <<"timeout">> => id \notin timers
        /\ (settled[id] = <<"resolve">> /\ Owner(id) # 0 /\ sent[id].method = "agent") =>
              rq[Owner(id)].runId = id
        /\ (settled[id] = <<"reject">> /\ Owner(id) # 0 /\ ~rq[Owner(id)].stream) =>
              rq[Owner(id)].http.content = <<gw[id]>>
        /\ (settled[id] = <<"timeout">> /\ Owner(id) # 0 /\ ~rq[Owner(id)].stream) =>
              rq[Owner(id)].http.content = <<"Timeout">>

\* C10: every request sent is settled once, by its response or by its timeout,
\* and leaves the pending map then; a late response or timer changes nothing; and
\* every pending entry is removed in the end, whatever the socket does.
RequestSettledOnce ==
    /\ []SettledOnce
    /\ \A id \in 1..MaxIds : (id \in pending) ~> (id \notin pending)

\* a response that arrived after the timeout had settled the request
RequestSettledOnceWitness ==
    \E id \in 1..Len(sent) : settled[id] = <<"timeout">> /\ gw[id] = "ok"

\* ---- claims on the connection manager
\* the handshake of the current socket has completed
Connected(c) == WsIsOpen(c) /\ c.atts[c.ws].authed

\* an attempt that failed: connect() rejected, or the socket closed after success
FailedAttempt(a) ==
    /\ a <= Len(conn.atts)
    /\ \/ conn.atts[a].promise = "rejected"
       \/ conn.atts[a].promise = "resolved" /\ conn.atts[a].state = "closed"

NotConnectedFailsFast ==
    [][(nApi' = nApi + 1 /\ ~Connected(conn)) => (sent' = sent /\ pending' = pending)]_vars

\* C12: a connect frame sent on a socket carries a nonce that a challenge
\* delivered on that socket, and a connect() call completes only after the ok
\* response to a connect frame it sent on its own socket.
HandshakeOrder ==
    /\ \A hl \in conn.hello : hl.nonce \in conn.atts[hl.sock].nonces
    /\ \A a \in 1..Len(conn.atts) :
          conn.atts[a].promise = "resolved" =>
              \E hl \in conn.hello : hl.att = a /\ hl.sock = a /\ gw[hl.id] = "ok"

\* min(1000 * 2^(k-1), 30000) for the k-th consecutive failure
DelayAfter(k) == IF k <= 5 THEN 1000 * 2^(k - 1) ELSE 30000

\* C14: every armed reconnect timer was scheduled with the delay of the number
\* of consecutive failures at that moment.
BackoffSequence == \A t \in conn.rtimers : t.k >= 1 /\ t.delay = DelayAfter(t.k)

\* C15: once stop() has run no reconnect timer is armed and no socket is open or
\* connecting, and until start() no socket is created and no frame is sent.
StopIsFinal ==
    [][/\ conn'.isStopped =>
             /\ conn'.rtimers = {}
             /\ \A s \in 1..Len(conn'.atts) : conn'.atts[s].state \in {"closing", "closed"}
       /\ (conn.isStopped /\ conn'.isStopped) =>
             /\ Len(conn'.atts) = Len(conn.atts)
             /\ conn'.hello = conn.hello]_vars

\* C16: a challenge on a socket whose handshake has completed makes the manager
\* send a connect frame with the new nonce, and leaves every pending request
\* pending and unsettled.
ReChallenge(s) ==
    (/\ s <= Len(conn.atts)
     /\ conn.atts[s].promise = "resolved"
     /\ conn.atts[s].authed
     /\ conn'.atts[s].nonces # conn.atts[s].nonces) =>
        /\ Len(sent') = Len(sent) + 1
        /\ sent'[Len(sent')].method = "connect"
        /\ \E hl \in conn'.hello : hl.id = Len(sent') /\ hl.nonce = conn'.nNonce
        /\ pending \subseteq pending'
        /\ \A id \in 1..Len(settled) : settled'[id] = settled[id]

ReAuthentication == [][\A s \in 1..MaxSockets : ReChallenge(s)]_vars

\* ------------------------------------------- the reassembler on one run
\* The raw deltas the gateway sends in the events of one run: bare strings and
\* objects with content, the reasoning aliases and a role, as cumulative
\* snapshots ("G", "GE", "GEM"), as increments, and with a native "<think>".
G == <<"G">>
GE == <<"G", "E">>
GEM == <<"G", "E", "M">>
R == <<"R">>
RS == <<"R", "S">>
Native == <<THINK_OPEN, "G">>
NativeMore == <<THINK_OPEN, "G", "E">>

Both(k1, v1, k2, v2) == Obj(k1, v1) \cup Obj(k2, v2)

Deltas ==
    { StrDelta(G),
      ObjDelta(Obj("content", G)), ObjDelta(Obj("content", GE)),
      ObjDelta(Obj("content", GEM)), ObjDelta(Obj("content", <<"E">>)),
      ObjDelta(Obj("content", Native)), ObjDelta(Obj("content", NativeMore)),
      ObjDelta(Obj("reasoning_content", R)), ObjDelta(Obj("reasoning_content", RS)),
      ObjDelta(Obj("thinking", <<"S">>)), ObjDelta(Obj("thought", RS)),
      ObjDelta(Both("reasoning_content", RS, "content", G)),
      ObjDelta(Both("reasoning_content", R, "thinking", <<"S">>)),
      ObjDelta(Both("reasoning_content", R, "content", Native)),
      ObjDelta(Both("role", <<"assistant">>, "content", GE)),
      ObjDelta(Both("role", <<"tool">>, "content", G)),
      ObjDelta(Both("role", <<"tool">>, "content", Native)),
      ObjDelta(Both("role", <<"tool">>, "thinking", R)),
      ObjDelta(Both("role", <<"assistant">>, "content", <<>>)),
      ObjDelta(Both("role", <<"tool">>, "content", <<>>)),
      ObjDelta(Both("usage", <<"u">>, "content", <<"M">>)) }

\* eventHandler of the streaming branch on an event that carries a delta
Feed(raw) ==
    /\ fed' = [q |-> forwardDelta(fed.q, raw, Len(fed.ins) + 1),
               ins |-> Append(fed.ins, raw)]
    /\ UNCHANGED <<rq, pendingApprovals, sessionMap, nextSid, wsOpen, sent, pending,
                   timers, settled, gw, nEvents, confirmed, nApi, conn, now, nElapses, config, composed, inbound, twin>>

NextFeed == \E raw \in Deltas : Len(fed.ins) < MaxDeltas /\ Feed(raw)

SpecFeed == Init /\ [][NextFeed]_vars

\* ------------------------------------------------ claims on the reassembler
REASONING_FIELDS == {"reasoning_content", "thinking", "thought"}

\* the i-th delta as forwardDelta hands it to the reassembler, and its fields
Handed(i) == normalizeDeltaPayload(fed.ins[i])
ContentIn(i) == Get(Handed(i), "content")
ReasoningIn(i) ==
    LET named == {k \in REASONING_FIELDS : Truthy(Get(Handed(i), k))}
    IN  IF "reasoning_content" \in named THEN Get(Handed(i), "reasoning_content")
        ELSE IF "thinking" \in named THEN Get(Handed(i), "thinking")
        ELSE Get(Handed(i), "thought")
AssistantDelta(i) == Get(Handed(i), "role") \in {<<>>, <<"assistant">>}

RECURSIVE ContentsOf(_)
ContentsOf(chunks) ==
    IF chunks = <<>> THEN <<>>
    ELSE Get(Head(chunks).delta, "content") \o ContentsOf(Tail(chunks))

\* what reaches the client: the content of all chunks, and of the i-th delta's
Streamed == ContentsOf(fed.q.out)
Emitted(i) == ContentsOf(SelectSeq(fed.q.out, LAMBDA c : c.ev = i))

\* the text a client reads outside (inside) the think blocks of a stream
RECURSIVE TextOf(_, _, _)
TextOf(s, inside, wanted) ==
    IF s = <<>> THEN <<>>
    ELSE IF Head(s) = THINK_OPEN THEN TextOf(Tail(s), TRUE, wanted)
    ELSE IF Head(s) = THINK_CLOSE[1] THEN TextOf(Tail(s), FALSE, wanted)
    ELSE IF Head(s) = THINK_CLOSE[2] THEN TextOf(Tail(s), inside, wanted)
    ELSE (IF inside = wanted THEN <<Head(s)>> ELSE <<>>) \o TextOf(Tail(s), inside, wanted)
ContentText(s) == TextOf(s, FALSE, FALSE)
ReasoningText(s) == TextOf(s, FALSE, TRUE)

\* the non-empty values of a field in arrival order; a cumulative sequence
ContentSnapshots ==
    SelectSeq([i \in 1..Len(fed.ins) |-> ContentIn(i)], LAMBDA v : v # <<>>)
ReasoningSnapshots ==
    SelectSeq([i \in 1..Len(fed.ins) |-> ReasoningIn(i)], LAMBDA v : v # <<>>)
Cumulative(snaps) == \A i \in 2..Len(snaps) : StartsWith(snaps[i], snaps[i - 1])
Growing(snaps) == \A i \in 2..Len(snaps) : Len(snaps[i]) > Len(snaps[i - 1])
LastOf(snaps) == IF snaps = <<>> THEN <<>> ELSE snaps[Len(snaps)]
Before(snaps, i) == IF i = 1 THEN <<>> ELSE snaps[i - 1]

\* C17 as stated: when every delta of the run carries only content and each
\* value extends the one before, the i-th delta emits exactly the suffix added
\* since the previous snapshot, whatever the snapshots contain; and the same when
\* every delta carries only reasoning, the opening marker apart.
SnapshotSuffixes ==
    LET n == Len(fed.ins)
        contents == [i \in 1..n |-> ContentIn(i)]
        reasonings == [i \in 1..n |-> ReasoningIn(i)]
    IN  /\ ( /\ \A i \in 1..n : ObjKeys(Handed(i)) = {"content"} /\ ContentIn(i) # <<>>
             /\ Cumulative(contents) /\ Growing(contents) )
           => \A i \in 1..n :
                Emitted(i) = Slice(contents[i], Len(Before(contents, i)))
        /\ ( /\ \A i \in 1..n : /\ ObjKeys(Handed(i)) \subseteq REASONING_FIELDS
                                /\ ReasoningIn(i) # <<>>
             /\ Cumulative(reasonings) /\ Growing(reasonings) )
           => \A i \in 1..n :
                ReasoningText(Emitted(i)) = Slice(reasonings[i], Len(Before(reasonings, i)))

\* no delta of the run is passed through: none has a role other than assistant,
\* and no content carries the opening marker
Reassembled ==
    \A i \in 1..Len(fed.ins) : AssistantDelta(i) /\ ~Includes(ContentIn(i), THINK_OPEN)

\* C17, amended: in a run none of whose deltas is passed through, when the content
\* values are cumulative snapshots the content streamed so far is the last
\* snapshot, so each delta added exactly its suffix; and independently the same
\* for the reasoning values and the text streamed inside the think blocks.
SnapshotSuffixesReassembled ==
    Reassembled =>
        /\ Cumulative(ContentSnapshots) => ContentText(Streamed) = LastOf(ContentSnapshots)
        /\ Cumulative(ReasoningSnapshots)
             => ReasoningText(Streamed) = LastOf(ReasoningSnapshots)

\* "G", "GE", "GEM" have arrived and "G", "E", "M" were emitted
SnapshotSuffixesWitness ==
    /\ Len(fed.ins) = 3
    /\ [i \in 1..3 |-> ContentIn(i)] = <<G, GE, GEM>>
    /\ [i \in 1..3 |-> Emitted(i)] = << <<"G">>, <<"E">>, <<"M">> >>
    /\ Reassembled

Positions(s, token) == {i \in 1..Len(s) : s[i] = token}
ReasoningTokens == {R[1], RS[2]}    \* the characters of the reasoning values

\* the run's first content delta has arrived, and reasoning arrived before it
ReasoningBeforeContent ==
    \E i, j \in 1..Len(fed.ins) :
        /\ i < j /\ ReasoningIn(i) # <<>> /\ ContentIn(j) # <<>>
        /\ \A k \in 1..(j - 1) : ContentIn(k) = <<>>

\* C18: once the run's deltas (none of them passed through) contain reasoning
\* before content, the streamed output has exactly one "<think>" and exactly one
\* "</think>" followed by the blank line, every reasoning character lies after
\* the opening marker and none lies after the closing marker.
OneThinkBlock ==
    LET s == Streamed
        opens == Positions(s, THINK_OPEN)
        closes == Positions(s, THINK_CLOSE[1])
    IN  (Reassembled /\ ReasoningBeforeContent) =>
          /\ Cardinality(opens) = 1
          /\ Cardinality(closes) = 1
          /\ \A c \in closes : c < Len(s) /\ s[c + 1] = THINK_CLOSE[2]
          /\ \A i \in 1..Len(s) :
                s[i] \in ReasoningTokens =>
                    (\E o \in opens : o < i) /\ (\A c \in closes : i < c)

\* the opening marker alone, when content with the native marker may follow
\* the reasoning
OneThinkBlockNative ==
    (ReasoningBeforeContent /\ \A i \in 1..Len(fed.ins) : AssistantDelta(i))
        => Cardinality(Positions(Streamed, THINK_OPEN)) <= 1

ChunksOf(j) == {k \in 1..Len(fed.q.out) : fed.q.out[k].ev = j}
RoleChunk == Obj("role", <<"assistant">>)

\* the j-th delta reached the client as it was handed over, or not at all
Unmodified(j) ==
    /\ \A k \in ChunksOf(j) : fed.q.out[k].delta \in {Handed(j), RoleChunk}
    /\ Emitted(j) = ContentIn(j)

\* every opening marker in the output is one the gateway sent
NoMarkerInjected ==
    \A k \in 1..Len(fed.q.out) :
        LET text == Get(fed.q.out[k].delta, "content")
        IN  Includes(text, THINK_OPEN) => text = ContentIn(fed.q.out[k].ev)

\* assistant content that carries the native opening marker has arrived as delta t
NativeAt(t) == AssistantDelta(t) /\ Includes(ContentIn(t), THINK_OPEN)

\* C19: once an assistant content delta contains "<think>", that delta and every
\* later delta of the run are passed through unmodified, and the output of the
\* run carries no opening marker of the reassembler's own: it is never
\* double-wrapped.
NativePassthrough ==
    \A t \in 1..Len(fed.ins) :
        NativeAt(t) => /\ \A j \in t..Len(fed.ins) : Unmodified(j)
                       /\ NoMarkerInjected

\* the first half alone: pass-through from the marker on
PassthroughFromMarker ==
    \A t \in 1..Len(fed.ins) : NativeAt(t) => \A j \in t..Len(fed.ins) : Unmodified(j)

\* C20: no delta object written to the stream carries reasoning_content,
\* thinking or thought, whatever was handed over and whatever the reassembler's
\* state.
ReasoningFieldsStripped ==
    \A k \in 1..Len(fed.q.out) : ObjKeys(fed.q.out[k].delta) \cap REASONING_FIELDS = {}

\* the same for the deltas the reassembler rewrites
ReasoningFieldsStrippedReassembled ==
    \A k \in 1..Len(fed.q.out) :
        (fed.q.out[k].delta # Handed(fed.q.out[k].ev))
            => ObjKeys(fed.q.out[k].delta) \cap REASONING_FIELDS = {}

EmptyContent(delta) == Has(delta, "content") /\ Get(delta, "content") = <<>>

\* C21: no chunk whose delta.content is the empty string is ever written to a
\* streaming response: a delta that adds no text is forwarded without a content
\* key or not at all.
NoEmptyContentChunk ==
    \A k \in 1..Len(fed.q.out) : ~EmptyContent(fed.q.out[k].delta)

\* the same for the deltas the reassembler rewrites
NoEmptyContentChunkReassembled ==
    \A k \in 1..Len(fed.q.out) :
        (fed.q.out[k].delta # Handed(fed.q.out[k].ev)) => ~EmptyContent(fed.q.out[k].delta)

\* ------------------------------------------- claims on the chat handler, again
UNKNOWN_AGENT == <<"unknown agent">>

\* the gateway's rejection of frame id reaches the request that awaits it
RejectionArrives(id, message) ==
    /\ GwRespond(id, FALSE, message)
    /\ id \in pending
    /\ Owner(id) \in Req
    /\ sent[id].method = "agent"

\* C26: when the runtime rejects the run-issue request because the agent is
\* unknown, the caller gets status 400 with code model_not_found, streaming or
\* buffered; any other rejection of the run issue is reported as a 500
\* internal_error.
UnknownAgentDistinct ==
    [][\A id \in 1..Len(sent) :
         /\ RejectionArrives(id, UNKNOWN_AGENT)
              => /\ rq'[Owner(id)].http.status = 400
                 /\ rq'[Owner(id)].http.code = "model_not_found"
         /\ RejectionArrives(id, <<"boom">>)
              => /\ rq'[Owner(id)].http.status = 500
                 /\ rq'[Owner(id)].http.code = "internal_error"]_vars

\* the same for buffered requests alone
UnknownAgentDistinctBuffered ==
    [][\A id \in 1..Len(sent) :
         /\ (RejectionArrives(id, UNKNOWN_AGENT) /\ ~rq[Owner(id)].stream)
              => /\ rq'[Owner(id)].http.status = 400
                 /\ rq'[Owner(id)].http.code = "model_not_found"
         /\ (RejectionArrives(id, <<"boom">>) /\ ~rq[Owner(id)].stream)
              => /\ rq'[Owner(id)].http.status = 500
                 /\ rq'[Owner(id)].http.code = "internal_error"]_vars

\* C27: the runId of a run binding is set at most once: once an event or the
\* approval has set it, no later event and not the run-issue response changes it.
RunIdLockedOnce ==
    [][\A r \in Req : rq[r].runId # Null => rq'[r].runId = rq[r].runId]_vars

\* the payloads that carry nothing but a text delta, in either position
TextPayloads ==
    {p \in Payloads : /\ p.status = "" /\ p.phase = ""
                      /\ \/ p.delta.t = "str"
                         \/ p.stream = "assistant" /\ Has(p.dataDelta.o, "content")}
TextOfPayload(p) == IF p.delta.t = "str" THEN p.delta.s ELSE Get(p.dataDelta.o, "content")

\* request r has sent its 'agent' frame and still awaits the response, and its
\* binding is not over: the sink is open, the run has not completed or timed out
AwaitsIssue(r) ==
    /\ rq[r].pc = "issue" /\ rq[r].method = "agent" /\ rq[r].reqId # Null
    /\ IF rq[r].stream THEN ~rq[r].ended /\ ~rq[r].closed
       ELSE rq[r].donePromise = "pending"

\* the text reached request r: in the buffer, or as a chunk of this event that
\* ends with what the text adds to the content streamed before (nothing is
\* written when it adds nothing)
Forwarded(r, text) ==
    LET before == rq[r].processor.accumulatedContent
    IN  IF ~rq[r].stream THEN rq'[r].fullContent = rq[r].fullContent \o text
        ELSE IF before # <<>> /\ text = before
        THEN rq'[r].out = rq[r].out
        ELSE \E k \in 1..Len(rq'[r].out) :
                /\ k > Len(rq[r].out)
                /\ rq'[r].out[k].ev = nEvents'
                /\ \E n \in 0..(Len(text) - 1) :
                      IsSuffix(Slice(text, n), Get(rq'[r].out[k].delta, "content"))

Deregistered(r) == rq[r].stream /\ rq[r].pc # "idle" /\ ~rq[r].listening

\* C29: every exit path of a streaming binding deregisters its listener through
\* the 'removed' guard: whenever the listener is off, listenerRemoved is set, so
\* any later attempt finds the guard closed and does nothing
DeregisteredThroughGuard == \A r \in Req : Deregistered(r) => rq[r].listenerRemoved

\* the same for every exit path but the failure of the run issue
DeregisteredThroughGuardUnlessFailed ==
    \A r \in Req : Deregistered(r) /\ rq[r].pc # "failed" => rq[r].listenerRemoved

\* ------------------------------------------------ events of other runs
MaxForeignEvents == 2

\* two chat requests that may overlap, the gateway accepting their frames, and
\* the events of their runs; no timer fires and the socket stays as it is
NextForeign ==
    \/ \E r \in Req, stream \in BOOLEAN, key \in Keys, body \in Bodies, long \in BOOLEAN :
          ChatRequest(r, stream, key, Conversation(body, long))
    \/ \E id \in pending : GwRespond(id, TRUE, <<>>)
    \/ \E name \in {"agent", "health"}, run \in 1..Len(sent), hasRunId \in BOOLEAN,
          hasSessionKey \in BOOLEAN, payload \in PairPayloads :
          nEvents < MaxForeignEvents /\ GwEvent(name, run, hasRunId, hasSessionKey, payload)

SpecForeign == Init /\ [][NextForeign]_vars

\* the events the gateway can emit for the runs it was asked for
Emittable ==
    {Event(name, IF hasRunId THEN run ELSE Undef,
           IF hasSessionKey THEN sent[run].sessionKey ELSE Undef, p) :
        name \in {"agent", "health"}, run \in {x \in 1..Len(sent) : sent[x].method = "agent"},
        hasRunId \in BOOLEAN, hasSessionKey \in BOOLEAN, p \in PairPayloads}

\* the event is none of binding r's: r has a runId and the event is not an
\* 'agent' event carrying that runId
Foreign(r, evt) == rq[r].runId # Null /\ (evt.event # "agent" \/ evt.runId # rq[r].runId)

\* C30: once a binding's runId is set, the handler of a listening binding
\* leaves the binding as it is (response, runId, reassembler, accumulated
\* content) and records no pending approval when it is called with an event
\* whose runId differs from the binding's, also one that carries the binding's
\* session key; an event whose name is not 'agent' passes every binding by
ForeignEventsIgnored ==
    \A r \in Req, evt \in Emittable :
        /\ (rq[r].listening /\ Foreign(r, evt)) =>
              /\ eventHandler(rq[r], evt, nEvents + 1) = rq[r]
              /\ r \notin Confirmers(rq[r].sessionKey, evt)
        /\ (rq[r].listening /\ evt.event # "agent") =>
              /\ eventHandler(rq[r], evt, nEvents + 1) = rq[r]
              /\ r \notin Confirmers(rq[r].sessionKey, evt)

\* request 1 holds run 1 and still listens; an event of run 2 that carried the
\* session id both requests share has locked request 2 and passed request 1 by
ForeignEventsIgnoredWitness ==
    /\ rq[1].listening /\ rq[2].listening
    /\ rq[1].effectiveSessionId = rq[2].effectiveSessionId
    /\ rq[1].runId = 1 /\ rq[2].runId = 2 /\ rq[2].reqId = 2
    /\ 2 \in pending
    /\ nEvents > 0

\* ------------------------------------------------ periodic maintenance
CLEANUP_INTERVAL == 3600000
APPROVAL_TTL == 3600000
SESSION_TTL == 86400000

MaxElapses == 3
MaxSessionEvents == 1

\* the entries of a map the sweep at time t keeps: now - value.timestamp > ttl deletes
Swept(map, t, ttl) ==
    [k \in {x \in DOMAIN map : ~(t - map[x].timestamp > ttl)} |-> map[k]]

\* the latest firing of cleanupInterval at or before t
LastCleanup(t) == (t \div CLEANUP_INTERVAL) * CLEANUP_INTERVAL

\* the steps of time: 20 minutes, one hour, one day
Durations == {CLEANUP_INTERVAL \div 3, CLEANUP_INTERVAL, SESSION_TTL}

\* time passes with no request and no event; cleanupInterval fires on every full
\* hour passed, and the last firing removes whatever an earlier one removed
Elapse(d) ==
    /\ nElapses < MaxElapses
    /\ nElapses' = nElapses + 1
    /\ now' = now + d
    /\ IF LastCleanup(now + d) > now
       THEN /\ pendingApprovals' = Swept(pendingApprovals, LastCleanup(now + d), APPROVAL_TTL)
            /\ sessionMap' = Swept(sessionMap, LastCleanup(now + d), SESSION_TTL)
       ELSE UNCHANGED <<pendingApprovals, sessionMap>>
    /\ UNCHANGED <<rq, nextSid, wsOpen, sent, pending, timers, settled, gw, nEvents,
                   confirmed, nApi, conn, fed, config, composed, inbound, twin>>

\* a request body of the last n messages of a conversation of three
History(body, n) == Slice(Conversation(body, TRUE), 3 - n)

\* two turns, a confirmation-required event, and time passing between them
NextSession ==
    \/ \E r \in Req, stream \in BOOLEAN, key \in Keys, body \in Bodies, n \in 1..3 :
          ChatRequest(r, stream, key, History(body, n))
    \/ \E run \in 1..Len(sent) :
          /\ nEvents < MaxSessionEvents
          /\ GwEvent("agent", run, TRUE, TRUE,
                     Payload("requires_confirmation", "", "", NoDelta, NoDelta))
    \/ \E d \in Durations : Elapse(d)

SpecSession == Init /\ [][NextSession]_vars

\* ------------------------------------------------ claims on the time to live
\* C24: a PendingApproval is absent from the approvals map once more than 1h
\* has passed since its creation, whatever the traffic, so that a request
\* arriving later than that finds none for its session key
ApprovalExpires ==
    \A k \in DOMAIN pendingApprovals :
        now - pendingApprovals[k].timestamp <= APPROVAL_TTL

\* an approval is absent once its time to live and one more cleanup interval
\* have passed since its creation
ApprovalExpiresBySweep ==
    \A k \in DOMAIN pendingApprovals :
        now - pendingApprovals[k].timestamp < APPROVAL_TTL + CLEANUP_INTERVAL

\* the last turn on session key k so far, by the arrival time in its id
TurnsOn(k) == {r \in Req : rq[r].pc # "idle" /\ rq[r].sessionKey = k}
LastAccess(k) == SetMax({rq[r].id : r \in TurnsOn(k)})

\* a SessionMapping is not removed while the last turn on its key is at most
\* 24h ago, and it still holds the time of that turn
MappingKept ==
    \A k \in Keys :
        TurnsOn(k) # {} /\ now - LastAccess(k) <= SESSION_TTL
            => k \in DOMAIN sessionMap /\ sessionMap[k].timestamp = LastAccess(k)

\* a SessionMapping is absent once more than 24h have passed since its last access
MappingExpires ==
    \A k \in DOMAIN sessionMap : now - sessionMap[k].timestamp <= SESSION_TTL

\* C25: a SessionMapping is never removed while the gaps between the turns on
\* its key are at most 24h, and it is absent from the session map once more
\* than 24h have passed since its last access
MappingLifetime == MappingKept /\ MappingExpires

MappingExpiresBySweep ==
    \A k \in DOMAIN sessionMap :
        now - sessionMap[k].timestamp < SESSION_TTL + CLEANUP_INTERVAL

\* a request that finds a pending approval for its session key arrives at most
\* 1h after the approval was created
StaleApprovalNotFound ==
    [][\A r \in Req :
          rq[r].pc = "idle" /\ rq'[r].pc # "idle" /\ rq'[r].hadPending # Undef
              => now - pendingApprovals[rq'[r].sessionKey].timestamp <= APPROVAL_TTL]_vars

\* a long turn that reuses the stored remoteSessionId arrives at most 24h after
\* the last access of its mapping
StaleMappingNotFound ==
    [][\A r \in Req :
          rq[r].pc = "idle" /\ rq'[r].pc # "idle" /\ ~rq'[r].isNewChat
              => now - sessionMap[rq'[r].sessionKey].timestamp <= SESSION_TTL]_vars

\* ------------------------------------------------ claims on the session logic
\* the remote session ids minted so far
Minted == {sessionMap[k].remoteSessionId : k \in DOMAIN sessionMap}
              \cup {rq[r].effectiveSessionId : r \in {x \in Req : rq[x].pc # "idle"}}

\* C22: a turn is a new chat exactly when its message list has at most 2
\* messages or its local session key has no mapping; a new chat stores a fresh
\* remoteSessionId under the key, any other turn keeps the stored id and
\* refreshes only the timestamp of its mapping; the session key of the 'agent'
\* frame sent is the remote id of the mapping
SessionClassified ==
    [][\A r \in Req, stream \in BOOLEAN, key \in Keys, body \in Bodies, n \in 1..3 :
          ChatRequest(r, stream, key, History(body, n)) =>
              LET new == Len(History(body, n)) <= 2 \/ key \notin DOMAIN sessionMap
              IN  /\ rq'[r].isNewChat = new
                  /\ key \in DOMAIN sessionMap'
                  /\ \A k \in Keys \ {key} :
                        /\ k \in DOMAIN sessionMap' <=> k \in DOMAIN sessionMap
                        /\ k \in DOMAIN sessionMap => sessionMap'[k] = sessionMap[k]
                  /\ new => /\ sessionMap'[key].remoteSessionId \notin Minted
                            /\ sessionMap'[key].timestamp = now
                  /\ ~new => /\ sessionMap'[key].remoteSessionId = sessionMap[key].remoteSessionId
                             /\ sessionMap'[key].timestamp = now
                  /\ rq'[r].effectiveSessionId = sessionMap'[key].remoteSessionId
                  /\ (wsOpen /\ rq'[r].method = "agent") =>
                        /\ Len(sent') = Len(sent) + 1
                        /\ sent'[Len(sent')].sessionKey = sessionMap'[key].remoteSessionId]_vars

\* a second turn of two messages on a mapped key has minted a new id, or a
\* longer one has kept the id and moved the timestamp
SessionClassifiedWitness ==
    /\ rq[1].pc # "idle" /\ rq[2].pc # "idle"
    /\ rq[1].sessionKey = rq[2].sessionKey
    /\ ~rq[2].isNewChat
    /\ rq[2].effectiveSessionId = rq[1].effectiveSessionId
    /\ rq[2].id > rq[1].id
    /\ sessionMap[rq[2].sessionKey].timestamp = rq[2].id
    /\ Len(sent) = 2 /\ sent[2].method = "agent"

\* ------------------------------------------------ message lists
MaxMessages == 3

HI == <<"hi">>
LS == <<"ls">>
SOURCED == <<"Sources:", "x", "\n", "\n", "ls">>
BRIEF == <<"be brief">>

\* the messages of a request body: user messages with and without a live-state
\* word, with a RAG block, and empty; system messages; an assistant message
Messages ==
    { Msg("user", HI), Msg("user", LS), Msg("user", SOURCED), Msg("user", <<>>),
      Msg("system", BRIEF), Msg("system", SYSTEM_GUARD_TEXT), Msg("assistant", <<"ok">>) }

\* messages: z.array(...).min(1)
Histories == UNION {[1..n -> Messages] : n \in 1..MaxMessages}

\* the construction of messagePayload for one request: a message list, its
\* classification (a list of at most 2 messages is always a new chat), and the
\* outbound message
Compose(messages, isNewChat) ==
    /\ composed.messages = <<>>
    /\ Len(messages) <= 2 => isNewChat
    /\ composed' = [messages |-> messages, isNewChat |-> isNewChat,
                    messagePayload |-> messagePayload(config.sessionMode, messages, isNewChat)]
    /\ UNCHANGED <<rq, pendingApprovals, sessionMap, nextSid, wsOpen, sent, pending,
                   timers, settled, gw, nEvents, confirmed, nApi, conn, fed, now,
                   nElapses, config, inbound, twin>>

NextCompose == \E messages \in Histories, isNewChat \in BOOLEAN : Compose(messages, isNewChat)

SpecCompose == Init /\ [][NextCompose]_vars

\* ------------------------------------------------ claims on the outbound message
SystemsOf(messages) ==
    LET IsSystem(m) == m.role = "system" IN SelectSeq(messages, IsSystem)

LatestUser(messages) == UsersOf(messages)[Len(UsersOf(messages))].content

\* the labeled block of the first system message, before the user's text
WithSystemBlock(messages, text) ==
    <<"System: ">> \o SystemsOf(messages)[1].content \o BLANK_LINE \o <<"User: ">> \o text

\* a message list has been composed in stateful mode
Composed == composed.messages # <<>> /\ config.sessionMode = "stateful"

Unguarded(messages) ==
    /\ ~detectIntent(messages)
    /\ \A i \in 1..Len(messages) :
          messages[i].role = "system" => messages[i].content # SYSTEM_GUARD_TEXT

\* the text the stateful mode sends for the user: the latest user message, or
\* the last message when there is no user message or the latest one is empty
UserText(messages) ==
    IF UsersOf(messages) # <<>> /\ LatestUser(messages) # <<>>
    THEN LatestUser(messages)
    ELSE messages[Len(messages)].content

HiScenario ==
    /\ Composed /\ composed.isNewChat
    /\ composed.messages = <<Msg("user", HI)>>
    /\ composed.messagePayload = HI

\* ------------------------------------------------ a peer that went away
\* C31: once the peer of a streaming response has disconnected, no write to
\* its sink is made: not for an event that arrives later, and not for the
\* error chunk and [DONE] of a run issue that fails or times out afterwards.
NoWriteAfterClose ==
    \A r \in Req : (rq[r].stream /\ rq[r].closed) => ~rq[r].lateWrite

\* the part that holds: the only writes made to a closed sink are those of
\* the failed run issue; events delivered after the disconnect write nothing
NoEventWriteAfterClose ==
    \A r \in Req : (rq[r].stream /\ rq[r].closed /\ rq[r].lateWrite) => rq[r].pc = "failed"

\* an event is delivered after the peer of an open response has disconnected
EventAfterClose ==
    \E r \in Req : rq[r].stream /\ rq[r].closed /\ rq[r].pc = "open"
                   /\ rq[r].startEv < nEvents /\ ~rq[r].lateWrite

\* ------------------------------------------------ one socket at a time
\* the sockets that are connecting or open
LiveSockets == {s \in 1..Len(conn.atts) : conn.atts[s].state \in {"connecting", "open"}}

\* the connect() calls whose promise is neither resolved nor rejected
AttemptsInProgress == {a \in 1..Len(conn.atts) : conn.atts[a].promise = "pending"}

\* C32: at most one socket is live and at most one connection attempt is in
\* progress at any moment; a socket is created only when every earlier one has
\* closed; the close of a socket that is not the current one leaves the
\* manager's reference to the current socket alone.
OneLiveSocket == Cardinality(LiveSockets) <= 1

\* at most one connect() call is unsettled
OneAttemptInProgress == Cardinality(AttemptsInProgress) <= 1

\* a socket is created only after the previous one has closed
CreatedAfterClose ==
    [][Len(conn'.atts) > Len(conn.atts)
          => \A s \in 1..Len(conn.atts) : conn.atts[s].state = "closed"]_vars

\* the close of a superseded socket does not touch this.ws
SupersededCloseKeepsCurrent ==
    [][\A s \in 1..Len(conn.atts) :
          (/\ conn.ws # Null /\ conn.ws # s
           /\ conn.atts[s].state # "closed" /\ conn'.atts[s].state = "closed")
          => conn'.ws = conn.ws]_vars

\* ------------------------------------------------ one retry per failure
\* C33: one connection failure (socket error while connecting, handshake
\* timeout, handshake rejection, unexpected close) schedules exactly one
\* reconnect: no two armed reconnect timers stem from the same failure, also
\* when the failure is seen twice (error then close, timeout then close).
OneRetryPerFailure ==
    \A t1, t2 \in conn.rtimers : t1.k = t2.k => t1 = t2

\* one step of the manager arms at most one reconnect timer
OneRetryPerStep ==
    [][Cardinality(conn'.rtimers \ conn.rtimers) <= 1]_vars

\* a failure of an attempt that is not stopped leaves a retry scheduled
FailureSchedulesRetry ==
    [][\A a \in 1..Len(conn.atts) :
          (conn.atts[a].promise = "pending" /\ conn'.atts[a].promise = "rejected"
           /\ ~conn'.isStopped)
          => conn'.rtimers \ conn.rtimers # {}]_vars

\* ------------------------------------------------ inbound text frames
MaxFrames == 1

\* a text frame off the socket: text that is JSON or not, the JSON value null,
\* a number or an object, and the object's members type, id, ok, event and
\* payload ("" or Undef for a member that is absent)
WireFrame(json, kind, type, id, ok, event, hasPayload) ==
    [json |-> json, kind |-> kind, type |-> type, id |-> id, ok |-> ok,
     event |-> event, hasPayload |-> hasPayload]

\* the frames taken: a frame cut off in the middle, 'null', '7', {}, a request
\* frame; response frames without id and with the ids of requests that are
\* pending, settled or were never sent; event frames that carry no payload,
\* with and without a name
InboundFrames ==
    { WireFrame(FALSE, "", "", Undef, FALSE, "", FALSE),
      WireFrame(TRUE, "null", "", Undef, FALSE, "", FALSE),
      WireFrame(TRUE, "number", "", Undef, FALSE, "", FALSE),
      WireFrame(TRUE, "object", "", Undef, FALSE, "", FALSE),
      WireFrame(TRUE, "object", "req", 1, FALSE, "", FALSE) }
    \cup { WireFrame(TRUE, "object", "res", id, ok, "", FALSE) :
              id \in {Undef} \cup (1..2), ok \in BOOLEAN }
    \cup { WireFrame(TRUE, "object", "event", Undef, FALSE, e, FALSE) :
              e \in {"", "tick", "agent", "connect.challenge"} }

\* the branch of ws.on('message') a frame takes: JSON.parse throws; parsed.type
\* of null throws; the 'res' branch; the 'event' branch, where payload.nonce of
\* a challenge without payload throws; neither branch
Dispatch(raw) ==
    IF ~raw.json THEN "SyntaxError"
    ELSE IF raw.kind = "null" THEN "TypeError"
    ELSE IF raw.type = "res" THEN "res"
    ELSE IF raw.type = "event"
    THEN IF raw.event = "connect.challenge" /\ ~raw.hasPayload THEN "TypeError" ELSE "event"
    ELSE "none"

\* ws.on('message') for one text frame; whatever is thrown inside is caught
\* and logged
Message(raw) ==
    /\ wsOpen
    /\ Len(inbound) < MaxFrames
    /\ inbound' = Append(inbound, [frame |-> raw, ev |-> nEvents,
                                   unmatched |-> raw.id \notin pending])
    /\ CASE Dispatch(raw) = "res" ->
              /\ onResponse(raw.id, raw.ok, raw.id, <<"Error">>)
              /\ UNCHANGED <<pendingApprovals, confirmed>>
         [] Dispatch(raw) = "event" ->
              /\ emitEvent(Event(raw.event, Undef, Undef,
                                 Payload("", "", "", NoDelta, NoDelta)), nEvents + 1)
              /\ UNCHANGED <<pending, settled>>
         [] OTHER -> UNCHANGED <<rq, pendingApprovals, confirmed, pending, settled>>
    /\ UNCHANGED <<sessionMap, nextSid, fed, now, nElapses, config, composed, twin,
                   wsOpen, sent, timers, gw, nEvents, nApi, conn>>

\* one chat request, its response, the events of its run, and frames of any
\* kind in between
NextFrames ==
    \/ \E stream \in BOOLEAN, body \in Bodies :
          ChatRequest(1, stream, "agent:dev:main", Conversation(body, FALSE))
    \/ \E id \in pending, ok \in BOOLEAN : GwRespond(id, ok, <<"boom">>)
    \/ \E run \in 1..Len(sent), payload \in PairPayloads :
          nEvents < MaxPairEvents /\ GwEvent("agent", run, TRUE, TRUE, payload)
    \/ \E raw \in InboundFrames : Message(raw)

SpecFrames == Init /\ [][NextFrames]_vars

\* a frame that is no JSON, no object, of no known type, a response that
\* matches no pending request, or an event without payload
Malformed(entry) ==
    \/ ~entry.frame.json
    \/ entry.frame.kind # "object"
    \/ entry.frame.type \notin {"res", "event"}
    \/ entry.frame.type = "res" /\ entry.unmatched
    \/ entry.frame.type = "event" /\ ~entry.frame.hasPayload

\* C34: a frame that cannot be parsed or has an unexpected shape (a response
\* with an id that matches no pending request included) is dropped: the pending
\* map and its timers, the connection, the listeners and everything else of
\* the requests are as before, and later frames are handled as usual.
MalformedDropped ==
    [][(Len(inbound') > Len(inbound) /\ Malformed(inbound'[Len(inbound')]))
          => /\ pending' = pending /\ settled' = settled /\ timers' = timers
             /\ conn' = conn /\ wsOpen' = wsOpen
             /\ rq' = rq /\ pendingApprovals' = pendingApprovals]_vars

\* a response whose id matched no pending request was dropped, and an
\* event that arrived after it has reached the response of the request
MalformedDroppedWitness ==
    /\ inbound # <<>>
    /\ Malformed(inbound[1])
    /\ inbound[1].frame.type = "res" /\ inbound[1].frame.id = 1
    /\ \E k \in 1..Len(rq[1].out) :
          rq[1].out[k].ev > inbound[1].ev /\ Has(rq[1].out[k].delta, "content")

\* ------------------------------------------------ streaming and buffered
MaxTwinEvents == 3

\* the payloads of the run's events: content in payload.data.delta, as snapshots
\* G, GE; a bare string in payload.delta; reasoning under one alias and under
\* two; the same text in payload.delta and payload.data.delta; the run's end
TwinPayloads ==
    { Payload("", "assistant", "", NoDelta, ObjDelta(Obj("content", c))) : c \in {G, GE} }
    \cup { Payload("", "", "", StrDelta(<<"E">>), NoDelta),
           Payload("", "", "", ObjDelta(Obj("reasoning_content", R)), NoDelta),
           Payload("", "", "", ObjDelta(Both("reasoning_content", R, "thinking", <<"S">>)),
                   NoDelta),
           Payload("", "assistant", "", StrDelta(G), ObjDelta(Obj("content", G))),
           Payload("done", "", "", NoDelta, NoDelta),
           Payload("", "lifecycle", "end", NoDelta, NoDelta) }

\* client.emit('event', evt) for an event of the run: the listener of the
\* streaming request and the listener of the buffered request each handle it
Deliver(payload) ==
    /\ Len(twin.evts) < MaxTwinEvents
    /\ twin.s.listening /\ twin.b.listening
    /\ LET evt == Event("agent", 1, Undef, payload)
           n == Len(twin.evts) + 1
       IN  twin' = [s |-> eventHandlerStream(twin.s, evt, n),
                    b |-> eventHandlerBuffered(twin.b, evt, n),
                    evts |-> Append(twin.evts, evt)]
    /\ UNCHANGED <<rq, pendingApprovals, sessionMap, nextSid, wsOpen, sent, pending,
                   timers, settled, gw, nEvents, confirmed, nApi, conn, fed, now,
                   nElapses, config, composed, inbound>>

NextTwin == \E payload \in TwinPayloads : Deliver(payload)

SpecTwin == Init /\ [][NextTwin]_vars

\* the run has ended in both modes: the buffered request has replied 200 and
\* the stream has been ended
TwinsDone == twin.b.pc = "replied" /\ twin.b.http.status = 200 /\ twin.s.ended

\* C35: for the same events of a run, the content of the buffered response is
\* the concatenation of the content chunks of the streaming response, also for
\* cumulative snapshots, several reasoning aliases in one delta, and an event
\* with both payload.delta and payload.data.delta.
ModesAgree == TwinsDone => twin.b.http.content = ContentsOf(twin.s.out)

\* the text of the one delta an event carries, if it carries one with content only
PlainText(evt) ==
    LET raw == IF evt.dataDelta.t # "undef" THEN evt.dataDelta ELSE evt.delta
    IN  IF (evt.dataDelta.t # "undef") # (evt.delta.t # "undef")
           /\ ObjKeys(normalizeDeltaPayload(raw)) = {"content"}
        THEN Get(normalizeDeltaPayload(raw), "content") ELSE <<>>

RECURSIVE PlainBefore(_)
PlainBefore(n) ==
    IF n = 0 THEN <<>> ELSE PlainBefore(n - 1) \o PlainText(twin.evts[n])

\* every event before the end carries one delta of content only, and none of
\* them begins with all the content before it
PlainIncrements ==
    \A i \in 1..(Len(twin.evts) - 1) :
        /\ PlainText(twin.evts[i]) # <<>>
        /\ i > 1 => ~StartsWith(PlainText(twin.evts[i]), PlainBefore(i - 1))

\* the part that holds: the modes agree on content-only increments
ModesAgreeOnIncrements == (TwinsDone /\ PlainIncrements) => ModesAgree

\* ------------------------------------------------ approvals name a run
\* C36: every PendingApproval in the map has a runId that is set, also when
\* the confirmation-required event is matched by session key, carries no runId
\* and arrives before the response to the run issue.
ApprovalHasRun ==
    \A k \in DOMAIN pendingApprovals : pendingApprovals[k].runId \notin {Null, Undef}

\* the part that holds: an approval recorded by a binding whose runId is set,
\* or from an event that carries a runId, names that run
ApprovalHasRunOnceLocked ==
    [][\A k \in DOMAIN pendingApprovals' :
          (/\ k \notin DOMAIN pendingApprovals \/ pendingApprovals'[k] # pendingApprovals[k]
           /\ pendingApprovals'[k].runId \in {Null, Undef})
          => \A r \in Req : rq[r].sessionKey = k /\ rq[r].listening => rq[r].runId = Null]_vars

\* ------------------------------------------------ a failed approve
\* the agent.approve of request r has failed: not connected, an ok:false
\* response, or the request timeout
ApproveFailed(r) ==
    /\ rq[r].method = "agent.approve"
    /\ IF rq[r].stream THEN rq[r].pc = "failed"
       ELSE rq[r].pc = "replied" /\ rq[r].http.status # 200
            /\ rq[r].http.content # RUN_TIMEOUT_MESSAGE

\* C37: when the agent.approve of an approval request fails, the
\* PendingApproval of its session key is still in the map, naming the same
\* run, so that a later approval token can resume it.
FailedApproveKeepsApproval ==
    \A r \in Req :
        ApproveFailed(r)
        => /\ rq[r].sessionKey \in DOMAIN pendingApprovals
           /\ pendingApprovals[rq[r].sessionKey].runId = rq[r].runId

\* ------------------------------------------------ a failed buffered issue
\* the buffered request r has produced its response
BufferedReplied(r) == rq[r].pc = "replied" /\ ~rq[r].stream

\* C38: when the run issue (or approve) of a buffered request fails, its 60 s
\* timer is cancelled and its listener deregistered before the error response:
\* no request that has replied has its timer armed or its listener registered,
\* and its completion wait is never rejected with nothing awaiting it.
BufferedFailureCleansUp ==
    \A r \in Req : BufferedReplied(r) => ~rq[r].timer /\ ~rq[r].listening

\* the completion wait is rejected only into the handler that awaits it
NoOrphanRejection ==
    [][\A r \in Req :
          (rq[r].donePromise = "pending" /\ rq'[r].donePromise = "rejected")
          => rq[r].pc = "wait"]_vars

\* the part that holds: a buffered request that has replied 200, or 500 on
\* the run timeout, has neither timer nor listener
BufferedCompletionCleansUp ==
    \A r \in Req :
        (BufferedReplied(r) /\ rq[r].donePromise # "pending")
        => ~rq[r].timer /\ ~rq[r].listening

\* ------------------------------------------------ approval and session
\* request r arrives in this step and is handled as an approval
ArrivesApproving(r) == rq[r].pc = "idle" /\ rq'[r].pc # "idle" /\ rq'[r].isResuming

\* C39: a request handled as an approval leaves the SessionMapping of its key
\* as it was but for the access time: no remoteSessionId is minted, whatever
\* the length of its message list, and no other mapping changes.
ApprovalKeepsSession ==
    [][\A r \in Req :
          ArrivesApproving(r)
          => LET k == rq'[r].sessionKey
             IN  /\ k \in DOMAIN sessionMap
                 /\ sessionMap'[k].remoteSessionId = sessionMap[k].remoteSessionId
                 /\ nextSid' = nextSid
                 /\ \A x \in DOMAIN sessionMap \ {k} : sessionMap'[x] = sessionMap[x]]_vars

\* the part that holds: the same for an approval with more than two messages
LongApprovalKeepsSession ==
    [][\A r \in Req :
          (ArrivesApproving(r) /\ ~rq'[r].isNewChat)
          => LET k == rq'[r].sessionKey
             IN  /\ k \in DOMAIN sessionMap
                 /\ sessionMap'[k].remoteSessionId = sessionMap[k].remoteSessionId
                 /\ sessionMap'[k].timestamp = now
                 /\ nextSid' = nextSid]_vars

\* an approval with more than two messages has arrived
LongApprovalArrived == \E r \in Req : rq[r].isResuming /\ ~rq[r].isNewChat

\* ------------------------------------------------ the run ends
\* the markers in the text written to the streaming response
OpensWritten == Positions(ContentsOf(twin.s.out), THINK_OPEN)
ClosesWritten == Positions(ContentsOf(twin.s.out), THINK_CLOSE[1])

\* C40: when a streaming run has terminated, every "<think>" the reassembler
\* injected has been followed by a "</think>": a run with reasoning and no
\* later content does not end inside an open reasoning block.
MarkersBalanced ==
    twin.s.ended => Cardinality(OpensWritten) = Cardinality(ClosesWritten)

\* the part that holds: the markers are balanced unless the run ends while the
\* reassembler is inside a reasoning block
MarkersBalancedOutsideBlock ==
    (twin.s.ended /\ ~twin.s.processor.isThinking)
    => Cardinality(OpensWritten) = Cardinality(ClosesWritten)

\* a run with reasoning, then content, then its end
ClosedBlockWritten == twin.s.ended /\ Cardinality(ClosesWritten) = 1

====
